---- MODULE Spec2Model ----
(***************************************************************************)
(* A model of the PlanetScale driver adapter core of kamsheffield/typeorm: *)
(* the bit-field decoder (NumberUtils), the value marshaller               *)
(* (preparePersistentValue / prepareHydratedValue) and the schema diff     *)
(* (findChangedColumns with its normalizers) of PlanetScaleDriver.         *)
(*                                                                         *)
(* JavaScript values are tagged records: [t |-> "undefined"],              *)
(* [t |-> "null"], [t |-> "boolean", v |-> b], [t |-> "number", v |-> n],  *)
(* [t |-> "string", v |-> <<chars>>] (text, one one-character string per   *)
(* UTF-16 unit), [t |-> "string", codes |-> <<units>>] (a binary string,   *)
(* given by its UTF-16 code units), [t |-> "buffer", v |-> <<bytes>>],     *)
(* [t |-> "array", v |-> <<values>>], [t |-> "object", ...].               *)
(* The constructors Number, String, Date, Boolean and Buffer used as       *)
(* column types are the capitalised strings "Number", "String", ...; the   *)
(* dialect's type names are all lower case, so the two never collide.      *)
(***************************************************************************)
EXTENDS Integers, Sequences, FiniteSets, TLC

VARIABLES
    numberUtils,     \* which copy of NumberUtils the build resolves
    bit,             \* argument of numberFromBitString
    bitRet,          \* what the last call of numberFromBitString produced
    mcol,            \* column metadata of the value being marshalled
    mval,            \* the value: application value, wire value, hydrated value
    morig,           \* the value the marshalling started from
    mpath,           \* the marshaller calls made on it, in order
    mlog,            \* the transformer calls made, in order
    tableColumns,    \* the live table's columns (TableColumn[])
    columnMetadatas, \* the entity's columns (ColumnMetadata[])
    indices,         \* the entity's indices (entityMetadata.indices)
    changedRet,      \* what the last findChangedColumns call returned
    uniqueRet,       \* what the last normalizeIsUnique call returned, and for which column
    edits,           \* how many changes the model and the table have seen
    call,            \* a call of a normalizer or of the parameter binder: function and arguments
    callRet,         \* what that call produced
    database,        \* the driver's default database (this.database)
    prev,            \* an earlier driver call and what it produced
    connectionPool,  \* PlanetScaleServerlessDriver.connectionPool
    held,            \* the connection each query runner holds
    created,         \* how many connections createConnection has made
    closed,          \* the connections made before a completed disconnect
    pc,              \* where the serverless driver's disconnect stands
    instance,        \* CommandDataSource._instance
    pool,            \* PlanetScaleMysqlDriver.pool
    pools,           \* the pools mysql.createPool has made: open or ended
    connectPc,       \* where the mysql driver's connect stands
    connectPool,     \* the pool that connect is creating
    endPool,         \* the pool a disconnect has asked to end
    connected        \* a connect has succeeded and no disconnect since

bitVars == <<bit, bitRet>>
marshalVars == <<mcol, mval, morig, mpath, mlog>>
diffVars == <<tableColumns, columnMetadatas, indices, changedRet, uniqueRet, edits>>
callVars == <<call, callRet>>
driverVars == <<database, prev>>
serverlessVars == <<connectionPool, held, created, closed, pc>>
mysqlVars == <<pool, pools, connectPc, connectPool, endPool, connected>>
vars == <<numberUtils, bit, bitRet, mcol, mval, morig, mpath, mlog,
          tableColumns, columnMetadatas, indices, changedRet, uniqueRet, edits,
          call, callRet, database, prev, connectionPool, held, created, closed, pc,
          instance, pool, pools, connectPc, connectPool, endPool, connected>>

-----------------------------------------------------------------------------
(* JavaScript values *)

Undefined == [t |-> "undefined"]
Null == [t |-> "null"]
Bool(b) == [t |-> "boolean", v |-> b]
Num(n) == [t |-> "number", v |-> n]
Str(s) == [t |-> "string", v |-> s]
BinStr(c) == [t |-> "string", codes |-> c]
Buf(b) == [t |-> "buffer", v |-> b]
Arr(a) == [t |-> "array", v |-> a]
PlainObject == [t |-> "object"]

IsNullish(x) == x.t = "null" \/ x.t = "undefined"

\* all sequences over S of length 0..n
RECURSIVE SeqsUpTo(_, _)
SeqsUpTo(S, n) ==
    IF n = 0 THEN {<<>>}
    ELSE LET shorter == SeqsUpTo(S, n - 1)
         IN shorter \cup {Append(s, x) : s \in {q \in shorter : Len(q) = n - 1}, x \in S}

-----------------------------------------------------------------------------------------------------------------------------------------------------
(* IEEE-754 doubles holding non-negative integers.  A number is the        *)
(* sequence of its base-2^24 limbs, least significant first, without       *)
(* leading zero limbs (<<>> is 0, <<5>> is 5, <<0, 1>> is 2^24), so that   *)
(* 64-bit fields do not depend on the checker's own 32-bit integers.       *)

\* bits of the significand of a double
MantissaBits == 53

LimbBits == 8 * 3
LimbBase == 4096 * 4096

RECURSIVE Pow2(_)
Pow2(n) == IF n = 0 THEN 1 ELSE 2 * Pow2(n - 1)

\* number of bits of a limb: 0 for 0, 1 for 1, 2 for 2..3, ...
RECURSIVE BitLength(_)
BitLength(n) == IF n = 0 THEN 0 ELSE 1 + BitLength(n \div 2)

\* drop the zero limbs at the most significant end
RECURSIVE Canonical(_)
Canonical(s) ==
    IF s = <<>> THEN s
    ELSE IF s[Len(s)] = 0 THEN Canonical(SubSeq(s, 1, Len(s) - 1))
    ELSE s

LimbAt(s, i) == IF i <= Len(s) THEN s[i] ELSE 0

\* the number of a small natural, and back
NatNumber(n) == Canonical(<<n % LimbBase, n \div LimbBase>>)
NumberNat(s) == LimbAt(s, 1) + LimbBase * LimbAt(s, 2)

\* number of significant bits of a number
BitCount(s) == IF s = <<>> THEN 0 ELSE LimbBits * (Len(s) - 1) + BitLength(s[Len(s)])

\* bit p (0 is the least significant) of a number
BitAt(s, p) == (LimbAt(s, (p \div LimbBits) + 1) \div Pow2(p % LimbBits)) % 2

\* whether any bit below position p is set
AnyBitBelow(s, p) ==
    \/ \E i \in 1..Len(s) : i <= p \div LimbBits /\ s[i] # 0
    \/ LimbAt(s, (p \div LimbBits) + 1) % Pow2(p % LimbBits) # 0

\* the number with the bits below position p cleared
ClearBelow(s, p) ==
    Canonical([i \in 1..Len(s) |->
        IF i <= p \div LimbBits THEN 0
        ELSE IF i = (p \div LimbBits) + 1 THEN s[i] - (s[i] % Pow2(p % LimbBits))
        ELSE s[i]])

\* n * 2^k for a factor n below 2^8, exact
ShiftLeft(n, k) ==
    LET shifted == n * Pow2(k % LimbBits)
    IN Canonical([i \in 1..(k \div LimbBits) |-> 0]
                 \o <<shifted % LimbBase, shifted \div LimbBase>>)

\* exact sum of two numbers, limb by limb from limb i with a carry
RECURSIVE AddFrom(_, _, _, _, _)
AddFrom(A, B, i, carry, acc) ==
    IF i > Len(A) /\ i > Len(B)
    THEN Canonical(Append(acc, carry))
    ELSE LET n == LimbAt(A, i) + LimbAt(B, i) + carry
         IN AddFrom(A, B, i + 1, n \div LimbBase, Append(acc, n % LimbBase))

ExactAdd(A, B) == AddFrom(A, B, 1, 0, <<>>)

\* round to nearest, ties to even, to MantissaBits significant bits
RoundToDouble(s) ==
    IF BitCount(s) <= MantissaBits THEN s
    ELSE LET cut == BitCount(s) - MantissaBits
             kept == ClearBelow(s, cut)
             guard == BitAt(s, cut - 1) = 1
             sticky == AnyBitBelow(s, cut - 1)
         IN IF guard /\ (sticky \/ BitAt(s, cut) = 1)
            THEN ExactAdd(kept, ShiftLeft(1, cut))
            ELSE kept

\* a + b on doubles
DoubleAdd(A, B) == RoundToDouble(ExactAdd(A, B))

\* code * Math.pow(2, k): an 8-bit factor times a power of two is exact
DoubleTimesPow2(code, k) == ShiftLeft(code, k)

-----------------------------------------------------------------------------
(* NumberUtils.numberFromBitString, in the two copies the tree holds *)

Returned(S) == [t |-> "return", value |-> S]
Thrown(e) == [t |-> "throw", error |-> e]

\* the accumulation loop shared by both copies:
\* value += unit * Math.pow(2, 8 * (length - 1 - i))
RECURSIVE Accumulate(_, _, _)
Accumulate(units, i, value) ==
    IF i > Len(units) THEN value
    ELSE Accumulate(units, i + 1,
             DoubleAdd(value, DoubleTimesPow2(units[i], 8 * (Len(units) - i))))

\* charCodeAt(i) & 255 for every unit of the string
LowBytes(codes) == [i \in 1..Len(codes) |-> codes[i] % 256]

\* the copy with a Buffer branch: Buffer, string, else warn and return 0
numberFromBitString(b) ==
    IF b.t = "buffer" THEN Returned(Accumulate(b.v, 1, <<>>))
    ELSE IF b.t = "string" THEN Returned(Accumulate(LowBytes(b.codes), 1, <<>>))
    ELSE Returned(<<>>)

\* Buffer.prototype.toString(): UTF-8 decoding.  A byte below 0x80 is the
\* character of that code; 0x80..0xC1 and 0xF5..0xFF never start a sequence
\* and decode to U+FFFD each.  (Lead bytes 0xC2..0xF4 are not in BitBytes.)
ReplacementChar == 65533

Utf8Decode(bytes) ==
    [i \in 1..Len(bytes) |-> IF bytes[i] < 128 THEN bytes[i] ELSE ReplacementChar]

\* Number.prototype.toString() of a natural number: its decimal digits
RECURSIVE DecimalDigits(_)
DecimalDigits(n) ==
    IF n < 10 THEN <<48 + n>>
    ELSE Append(DecimalDigits(n \div 10), 48 + (n % 10))

\* "true", "false" and "[object Object]" as code units
TrueText == <<116, 114, 117, 101>>
FalseText == <<102, 97, 108, 115, 101>>
ObjectText == <<91, 111, 98, 106, 101, 99, 116, 32, 79, 98, 106, 101, 99, 116, 93>>

\* bit.toString() for any argument
toString(b) ==
    IF b.t = "string" THEN Returned(b.codes)
    ELSE IF b.t = "buffer" THEN Returned(Utf8Decode(b.v))
    ELSE IF b.t = "number" THEN Returned(DecimalDigits(b.v))
    ELSE IF b.t = "boolean" THEN Returned(IF b.v THEN TrueText ELSE FalseText)
    ELSE IF b.t = "object" THEN Returned(ObjectText)
    ELSE Thrown("TypeError")

\* the copy in src/util/NumberUtils.ts: stringify whatever arrives, then
\* accumulate the low byte of every character
numberFromBitStringTs(b) ==
    LET stringVal == toString(b)
    IN IF stringVal.t = "throw" THEN stringVal
       ELSE Returned(Accumulate(LowBytes(stringVal.value), 1, <<>>))

\* the copy of NumberUtils a build of the driver links
NumberUtilsCopies == {"part_000", "NumberUtils.ts"}

NumberUtils_numberFromBitString(copy, b) ==
    IF copy = "part_000" THEN numberFromBitString(b) ELSE numberFromBitStringTs(b)

-----------------------------------------------------------------------------
(* Inputs of the bit decoder *)

\* longest bit field fed to the decoder, in bytes (MySQL's BIT(64) is 8)
MaxBitLen == 8

\* the byte values the fields are built from
BitBytes == {0, 1, 255}

BitFields == SeqsUpTo(BitBytes, MaxBitLen)

\* arguments that are neither a Buffer nor a string
OtherBitArgs == {Num(0), Num(5), Num(255), Bool(TRUE), Bool(FALSE), PlainObject, Null, Undefined}

BitArgs == {Buf(f) : f \in BitFields} \cup {BinStr(f) : f \in BitFields} \cup OtherBitArgs

NoCall == [t |-> "none"]

\* the marshaller's variables while no value is being marshalled
MarshalIdle ==
    /\ mcol = NoCall
    /\ mval = NoCall
    /\ morig = NoCall
    /\ mpath = <<>>
    /\ mlog = <<>>

\* the schema diff's variables while no table is being compared
DiffIdle ==
    /\ tableColumns = <<>>
    /\ columnMetadatas = <<>>
    /\ indices = <<>>
    /\ changedRet = NoCall
    /\ uniqueRet = NoCall
    /\ edits = 0

\* no normalizer or binder call is under way
CallIdle ==
    /\ call = NoCall
    /\ callRet = NoCall

\* the query runners that take connections from the serverless driver
Runners == {"r1", "r2"}

\* no connection
NoConnection == 0

\* the base driver as constructed without a database, and no call made on it
DriverIdle ==
    /\ database = [t |-> "undefined"]
    /\ prev = NoCall

\* the serverless driver as constructed
ServerlessIdle ==
    /\ connectionPool = <<>>
    /\ held = [r \in Runners |-> NoConnection]
    /\ created = 0
    /\ closed = {}
    /\ pc = "idle"

\* CommandDataSource before any set
CommandIdle == instance = [t |-> "undefined"]

\* the mysql driver as constructed
MysqlIdle ==
    /\ pool = 0
    /\ pools = <<>>
    /\ connectPc = "idle"
    /\ connectPool = 0
    /\ endPool = 0
    /\ connected = FALSE

\* the drivers and the command data source are not in use
DriversIdle == DriverIdle /\ ServerlessIdle /\ CommandIdle /\ MysqlIdle

-----------------------------------------------------------------------------
(* The bit decoder as a state machine: a row value arrives, the decoder is *)
(* called on it, the next value arrives.                                   *)

InitBit ==
    /\ numberUtils \in NumberUtilsCopies
    /\ bit \in BitArgs
    /\ bitRet = NoCall
    /\ MarshalIdle
    /\ DiffIdle
    /\ CallIdle
    /\ DriversIdle

CallNumberFromBitString ==
    /\ bitRet = NoCall
    /\ bitRet' = NumberUtils_numberFromBitString(numberUtils, bit)
    /\ UNCHANGED <<callVars, numberUtils, instance, driverVars, serverlessVars, mysqlVars, bit, marshalVars, diffVars>>

\* the same bytes arrive in the other representation (mysql2 delivers a
\* Buffer, the serverless driver a string)
OtherRepresentation ==
    /\ bit.t \in {"buffer", "string"}
    /\ bit' = IF bit.t = "buffer" THEN BinStr(bit.v) ELSE Buf(bit.codes)
    /\ bitRet' = NoCall
    /\ UNCHANGED <<callVars, numberUtils, instance, driverVars, serverlessVars, mysqlVars, marshalVars, diffVars>>

NextBit == CallNumberFromBitString \/ OtherRepresentation

SpecBit == InitBit /\ [][NextBit]_vars

-----------------------------------------------------------------------------
(* Properties of the bit decoder *)

BytesPerLimb == LimbBits \div 8

ByteAt(bytes, i) == IF i >= 1 /\ i <= Len(bytes) THEN bytes[i] ELSE 0

\* sum over i of byteAt(i) * 256^(len-1-i) as an exact integer: limb j holds
\* the bytes len-3j+1 .. len-3j+3, the last of them least significant
BigEndianValue(bytes) ==
    Canonical([j \in 1..((Len(bytes) + BytesPerLimb - 1) \div BytesPerLimb) |->
        ByteAt(bytes, Len(bytes) - BytesPerLimb * (j - 1))
        + 256 * ByteAt(bytes, Len(bytes) - BytesPerLimb * (j - 1) - 1)
        + 65536 * ByteAt(bytes, Len(bytes) - BytesPerLimb * (j - 1) - 2)])

\* the bytes of a Buffer or of a one-character-per-byte string
FieldBytes(b) == IF b.t = "buffer" THEN b.v ELSE b.codes

IsBitField(b) == b.t \in {"buffer", "string"}

\* 4294967295 = 255 * 2^24 + 16777215
UInt32Max == <<16777215, 255>>

\* 18446744073709551615 = 65535 * 2^48 + 16777215 * 2^24 + 16777215
UInt64Max == <<16777215, 16777215, 65535>>

AllOnes(n) == [i \in 1..n |-> 255]

\* C2: numberFromBitString decodes a Buffer or a one-character-per-byte
\* string as the big-endian unsigned integer of its bytes, the same for both
\* representations; four bytes 0xFF give 4294967295.
C2_BigEndianDecode ==
    (IsBitField(bit) /\ bitRet # NoCall) =>
        /\ bitRet = Returned(BigEndianValue(FieldBytes(bit)))
        /\ (FieldBytes(bit) = AllOnes(4) => bitRet = Returned(UInt32Max))

\* C3: decoding eight bytes 0xFF gives exactly 18446744073709551615.
C3_EightBytesExact ==
    (IsBitField(bit) /\ FieldBytes(bit) = AllOnes(8) /\ bitRet # NoCall) =>
        bitRet = Returned(UInt64Max)

\* C4: an argument that is neither a Buffer nor a string gives 0, and the
\* call does not throw.
C4_OtherShapesGiveZero ==
    (~IsBitField(bit) /\ bitRet # NoCall) => bitRet = Returned(<<>>)

-----------------------------------------------------------------------------
(* Text: a JavaScript string as the sequence of its characters *)

Digits == <<"0", "1", "2", "3", "4", "5", "6", "7", "8", "9">>

IsDigit(c) == \E d \in 1..10 : Digits[d] = c

DigitVal(c) == (CHOOSE d \in 1..10 : Digits[d] = c) - 1

AllDigits(text) == \A i \in 1..Len(text) : IsDigit(text[i])

\* String(n) of a natural number
RECURSIVE NatText(_)
NatText(n) ==
    IF n < 10 THEN <<Digits[n + 1]>>
    ELSE Append(NatText(n \div 10), Digits[(n % 10) + 1])

\* the number written by a sequence of digits
RECURSIVE TextNat(_)
TextNat(text) ==
    IF text = <<>> THEN 0
    ELSE 10 * TextNat(SubSeq(text, 1, Len(text) - 1)) + DigitVal(text[Len(text)])

\* n written with at least w digits
RECURSIVE ZeroPad(_, _)
ZeroPad(text, w) == IF Len(text) >= w THEN text ELSE ZeroPad(<<"0">> \o text, w)

\* parts.join(sep)
RECURSIVE Join(_, _)
Join(parts, sep) ==
    IF parts = <<>> THEN <<>>
    ELSE IF Len(parts) = 1 THEN parts[1]
    ELSE parts[1] \o sep \o Join(Tail(parts), sep)

\* text.split(c) for a one-character separator
RECURSIVE SplitFrom(_, _, _, _)
SplitFrom(text, c, i, current) ==
    IF i > Len(text) THEN <<current>>
    ELSE IF text[i] = c THEN <<current>> \o SplitFrom(text, c, i + 1, <<>>)
    ELSE SplitFrom(text, c, i + 1, Append(current, text[i]))

Split(text, c) == SplitFrom(text, c, 1, <<>>)

\* the longest prefix of digits
RECURSIVE DigitPrefix(_)
DigitPrefix(text) ==
    IF text = <<>> \/ ~IsDigit(text[1]) THEN <<>>
    ELSE <<text[1]>> \o DigitPrefix(Tail(text))

NaN == [t |-> "number", nan |-> TRUE]

IsNaNValue(x) == x.t = "number" /\ "nan" \in DOMAIN x

\* +value
UnaryPlus(x) ==
    IF x.t = "number" THEN x
    ELSE IF x.t = "boolean" THEN Num(IF x.v THEN 1 ELSE 0)
    ELSE IF x.t = "null" THEN Num(0)
    ELSE IF x.t = "string" /\ "v" \in DOMAIN x /\ AllDigits(x.v) THEN Num(TextNat(x.v))
    ELSE NaN

\* parseInt(value)
parseInt(x) ==
    IF x.t = "number" THEN x
    ELSE IF x.t = "string" /\ "v" \in DOMAIN x /\ DigitPrefix(x.v) # <<>>
    THEN Num(TextNat(DigitPrefix(x.v)))
    ELSE NaN

\* "" + value, for the values an enum column holds
StringOf(x) ==
    IF x.t = "string" THEN x
    ELSE IF x.t = "number" /\ ~IsNaNValue(x) THEN Str(NatText(x.v))
    ELSE IF x.t = "boolean" THEN Str(IF x.v THEN <<"t", "r", "u", "e">> ELSE <<"f", "a", "l", "s", "e">>)
    ELSE Str(<<"?">>)

\* value ? true : false
Truthy(x) ==
    IF x.t = "boolean" THEN x.v
    ELSE IF x.t = "number" THEN ~IsNaNValue(x) /\ x.v # 0
    ELSE IF x.t = "string" THEN (IF "v" \in DOMAIN x THEN x.v # <<>> ELSE x.codes # <<>>)
    ELSE ~IsNullish(x)

-----------------------------------------------------------------------------
(* Dates.  A Date is its calendar fields; zone tells whether they were     *)
(* read as UTC (a text ending in Z, or a date-only text) or as local time. *)

DateOf(ymd, hms, zone) == [t |-> "Date", ymd |-> ymd, hms |-> hms, zone |-> zone]
InvalidDate == [t |-> "Date", invalid |-> TRUE]

\* "YYYY-MM-DD" and "HH:MM:SS"
DateText(ymd) ==
    ZeroPad(NatText(ymd[1]), 4) \o <<"-">> \o ZeroPad(NatText(ymd[2]), 2)
    \o <<"-">> \o ZeroPad(NatText(ymd[3]), 2)

TimeText(hms) ==
    ZeroPad(NatText(hms[1]), 2) \o <<":">> \o ZeroPad(NatText(hms[2]), 2)
    \o <<":">> \o ZeroPad(NatText(hms[3]), 2)

IsDateText(text) ==
    /\ Len(text) = 10
    /\ text[5] = "-" /\ text[8] = "-"
    /\ \A i \in {1, 2, 3, 4, 6, 7, 9, 10} : IsDigit(text[i])

IsTimeText(text) ==
    /\ Len(text) = 8
    /\ text[3] = ":" /\ text[6] = ":"
    /\ \A i \in {1, 2, 4, 5, 7, 8} : IsDigit(text[i])

ParsedYmd(text) ==
    <<TextNat(SubSeq(text, 1, 4)), TextNat(SubSeq(text, 6, 7)), TextNat(SubSeq(text, 9, 10))>>

ParsedHms(text) ==
    <<TextNat(SubSeq(text, 1, 2)), TextNat(SubSeq(text, 4, 5)), TextNat(SubSeq(text, 7, 8))>>

\* new Date(text): "YYYY-MM-DD", "YYYY-MM-DD HH:MM:SS" or "YYYY-MM-DDTHH:MM:SS",
\* the last two with an optional Z; anything else is an invalid Date
NewDate(text) ==
    IF IsDateText(text) THEN DateOf(ParsedYmd(text), <<0, 0, 0>>, "utc")
    ELSE IF /\ Len(text) \in {19, 20}
            /\ IsDateText(SubSeq(text, 1, 10))
            /\ text[11] \in {" ", "T"}
            /\ IsTimeText(SubSeq(text, 12, 19))
            /\ (Len(text) = 20 => text[20] = "Z")
    THEN DateOf(ParsedYmd(SubSeq(text, 1, 10)), ParsedHms(SubSeq(text, 12, 19)),
                IF Len(text) = 20 THEN "utc" ELSE "local")
    ELSE InvalidDate

\* DateUtils.mixedDateToDateString
mixedDateToDateString(x) ==
    IF x.t = "Date" THEN (IF "invalid" \in DOMAIN x THEN Str(<<"N", "a", "N">>) ELSE Str(DateText(x.ymd)))
    ELSE x

\* DateUtils.mixedDateToTimeString
mixedDateToTimeString(x) ==
    IF x.t = "Date" THEN (IF "invalid" \in DOMAIN x THEN Str(<<"N", "a", "N">>) ELSE Str(TimeText(x.hms)))
    ELSE x

\* DateUtils.mixedDateToDate
mixedDateToDate(x) ==
    IF x.t = "string" THEN NewDate(x.v) ELSE x

\* DateUtils.normalizeHydratedDate
normalizeHydratedDate(x) ==
    IF ~Truthy(x) THEN x
    ELSE IF x.t = "string" THEN NewDate(x.v)
    ELSE x

\* DateUtils.mixedTimeToString: a Date gives its time text; in a text every
\* one-character field is padded with a zero
PadField(f) == IF Len(f) = 1 THEN <<"0">> \o f ELSE f

mixedTimeToString(x) ==
    LET y == mixedDateToTimeString(x)
    IN IF y.t = "string"
       THEN LET fields == Split(y.v, ":")
            IN Str(Join([i \in 1..Len(fields) |-> PadField(fields[i])], <<":">>))
       ELSE y

\* DateUtils.simpleArrayToString: the elements stringified, joined by commas
simpleArrayToString(x) ==
    IF x.t = "array"
    THEN Str(Join([i \in 1..Len(x.v) |-> StringOf(x.v[i]).v], <<",">>))
    ELSE x

\* DateUtils.stringToSimpleArray: split at the commas, "" is the empty array
stringToSimpleArray(x) ==
    IF x.t = "string"
    THEN (IF x.v = <<>> THEN Arr(<<>>)
          ELSE LET parts == Split(x.v, ",") IN Arr([i \in 1..Len(parts) |-> Str(parts[i])]))
    ELSE x

-----------------------------------------------------------------------------
(* JSON, over the values the model marshals *)

JsonObject == [t |-> "object", a |-> 1]

JsonValues == {JsonObject, Num(1), Bool(TRUE), Str(<<"x">>)}

\* JSON.stringify
JSON_stringify(x) ==
    IF x = JsonObject THEN Str(<<"{", "\"", "a", "\"", ":", "1", "}">>)
    ELSE IF x.t = "number" /\ ~IsNaNValue(x) THEN Str(NatText(x.v))
    ELSE IF x.t = "boolean" THEN StringOf(x)
    ELSE IF x.t = "string" THEN Str(<<"\"">> \o x.v \o <<"\"">>)
    ELSE Str(<<"n", "u", "l", "l">>)

\* JSON.parse: the value whose text this is, else a SyntaxError
JSON_parse(x) ==
    IF \E j \in JsonValues : JSON_stringify(j) = x
    THEN CHOOSE j \in JsonValues : JSON_stringify(j) = x
    ELSE Thrown("SyntaxError")

\* DateUtils.simpleJsonToString, DateUtils.stringToSimpleJson
simpleJsonToString(x) == JSON_stringify(x)

stringToSimpleJson(x) == IF x.t = "string" THEN JSON_parse(x) ELSE x

-----------------------------------------------------------------------------
(* Value transformers (ColumnMetadata.transformer, ApplyValueTransformers) *)

NoTransformer == "none"

\* transformer.to(value): "yesNo" stores a boolean as Y or N, "orZero"
\* stores 0 for a missing value
TransformerTo(name, x) ==
    IF name = "yesNo" /\ x.t = "boolean" THEN Str(IF x.v THEN <<"Y">> ELSE <<"N">>)
    ELSE IF name = "orZero" /\ IsNullish(x) THEN Num(0)
    ELSE x

\* transformer.from(value)
TransformerFrom(name, x) ==
    IF name = "yesNo" /\ x = Str(<<"Y">>) THEN Bool(TRUE)
    ELSE IF name = "yesNo" /\ x = Str(<<"N">>) THEN Bool(FALSE)
    ELSE IF name = "orZero" /\ IsNullish(x) THEN Num(0)
    ELSE x

\* ApplyValueTransformers.transformTo / transformFrom for a single transformer
transformTo(transformer, x) == TransformerTo(transformer, x)

transformFrom(transformer, x) == TransformerFrom(transformer, x)

-----------------------------------------------------------------------------
(* PlanetScaleDriver.preparePersistentValue / prepareHydratedValue *)

\* the column has an enum list (columnMetadata.enum is truthy)
HasEnum(col) == col.enum # <<>>

\* columnMetadata.enum.indexOf(x) >= 0
EnumHas(col, x) == \E i \in 1..Len(col.enum) : col.enum[i] = x

\* the value after the outbound transformer, if the column declares one
PersistTransformed(value, columnMetadata) ==
    IF columnMetadata.transformer # NoTransformer
    THEN transformTo(columnMetadata.transformer, value)
    ELSE value

\* the type dispatch of preparePersistentValue
PersistByType(value, columnMetadata) ==
    IF columnMetadata.type = "Boolean"
    THEN (IF value = Bool(TRUE) THEN Num(1) ELSE Num(0))
    ELSE IF columnMetadata.type = "date" THEN mixedDateToDateString(value)
    ELSE IF columnMetadata.type = "time" THEN mixedDateToTimeString(value)
    ELSE IF columnMetadata.type = "json" THEN JSON_stringify(value)
    ELSE IF columnMetadata.type \in {"timestamp", "datetime", "Date"}
    THEN mixedDateToDate(value)
    ELSE IF columnMetadata.type = "simple-array" THEN simpleArrayToString(value)
    ELSE IF columnMetadata.type = "simple-json" THEN simpleJsonToString(value)
    ELSE IF columnMetadata.type \in {"enum", "simple-enum"} THEN StringOf(value)
    ELSE IF columnMetadata.type = "set" THEN simpleArrayToString(value)
    ELSE IF columnMetadata.type = "Number"
    THEN (IF ~IsNaNValue(UnaryPlus(value)) THEN parseInt(value) ELSE value)
    ELSE value

\* preparePersistentValue returning a missing value before the transformer
preparePersistentValueNullFirst(value, columnMetadata) ==
    IF IsNullish(value) THEN value
    ELSE LET transformed == PersistTransformed(value, columnMetadata)
         IN IF IsNullish(transformed) THEN transformed
            ELSE PersistByType(transformed, columnMetadata)

preparePersistentValue(value, columnMetadata) ==
    LET transformed == PersistTransformed(value, columnMetadata)
    IN IF IsNullish(transformed) THEN transformed
       ELSE PersistByType(transformed, columnMetadata)

\* the number a call of NumberUtils.numberFromBitString leaves in value
BitValue(copy, value) ==
    LET r == NumberUtils_numberFromBitString(copy, value)
    IN IF r.t = "throw" THEN r ELSE Num(NumberNat(r.value))

\* the type dispatch of prepareHydratedValue
HydrateByType(copy, value, columnMetadata) ==
    IF columnMetadata.type \in {"Boolean", "bool", "boolean"} THEN Bool(Truthy(value))
    ELSE IF columnMetadata.type \in {"datetime", "Date"}
    THEN normalizeHydratedDate(IF value.t = "string" THEN Str(value.v \o <<"Z">>) ELSE value)
    ELSE IF columnMetadata.type = "date" THEN mixedDateToDateString(value)
    ELSE IF columnMetadata.type = "json"
    THEN (IF value.t = "string" THEN JSON_parse(value) ELSE value)
    ELSE IF columnMetadata.type = "time" THEN mixedTimeToString(value)
    ELSE IF columnMetadata.type = "simple-array" THEN stringToSimpleArray(value)
    ELSE IF columnMetadata.type = "simple-json" THEN stringToSimpleJson(value)
    ELSE IF /\ columnMetadata.type \in {"enum", "simple-enum"}
            /\ HasEnum(columnMetadata)
            /\ ~IsNaNValue(UnaryPlus(value))
            /\ EnumHas(columnMetadata, parseInt(value))
    THEN parseInt(value)
    ELSE IF columnMetadata.type = "set" THEN stringToSimpleArray(value)
    ELSE IF columnMetadata.type = "Number"
    THEN (IF ~IsNaNValue(UnaryPlus(value)) THEN parseInt(value) ELSE value)
    ELSE IF columnMetadata.type = "bit" THEN BitValue(copy, value)
    ELSE value

\* prepareHydratedValue with the transformer applied to the wire value,
\* before the type dispatch
prepareHydratedValueRawFirst(copy, value, columnMetadata) ==
    LET raw == IF columnMetadata.transformer # NoTransformer
               THEN transformFrom(columnMetadata.transformer, value)
               ELSE value
    IN IF IsNullish(value) THEN raw ELSE HydrateByType(copy, raw, columnMetadata)

prepareHydratedValue(copy, value, columnMetadata) ==
    IF IsNullish(value)
    THEN (IF columnMetadata.transformer # NoTransformer
          THEN transformFrom(columnMetadata.transformer, value)
          ELSE value)
    ELSE LET typed == HydrateByType(copy, value, columnMetadata)
         IN IF typed.t = "throw" THEN typed
            ELSE IF columnMetadata.transformer # NoTransformer
            THEN transformFrom(columnMetadata.transformer, typed)
            ELSE typed

\* the transformer calls preparePersistentValue makes
PersistCalls(value, columnMetadata) ==
    IF columnMetadata.transformer # NoTransformer
    THEN <<[fn |-> "to", arg |-> value]>>
    ELSE <<>>

\* the transformer calls prepareHydratedValue makes
HydrateCalls(copy, value, columnMetadata) ==
    IF columnMetadata.transformer = NoTransformer THEN <<>>
    ELSE IF IsNullish(value) THEN <<[fn |-> "from", arg |-> value]>>
    ELSE LET typed == HydrateByType(copy, value, columnMetadata)
         IN IF typed.t = "throw" THEN <<>> ELSE <<[fn |-> "from", arg |-> typed]>>

-----------------------------------------------------------------------------
(* The marshaller as a state machine: an application value is persisted,   *)
(* the wire value is hydrated; or a wire value arrives from the client     *)
(* library and is hydrated.                                                *)

Column(type, transformer, enum) == [type |-> type, transformer |-> transformer, enum |-> enum]

MarshalTypes ==
    {"Boolean", "bool", "boolean", "Number", "date", "time", "datetime", "timestamp",
     "Date", "json", "simple-array", "simple-json", "enum", "simple-enum", "set",
     "bit", "varchar"}

SampleDate == DateOf(<<2020, 1, 2>>, <<3, 4, 5>>, "utc")

TextA == <<"a">>
TextB == <<"b">>

\* the values an entity property of a column of this type holds
AppValues(type) ==
    IF type \in {"Boolean", "bool", "boolean"} THEN {Bool(TRUE), Bool(FALSE)}
    ELSE IF type = "Number" THEN {Num(0), Num(7), Num(255)}
    ELSE IF type = "date" THEN {Str(DateText(<<2020, 1, 2>>)), Str(DateText(<<1999, 12, 31>>))}
    ELSE IF type = "time" THEN {Str(TimeText(<<3, 4, 5>>)), Str(TimeText(<<23, 59, 59>>))}
    ELSE IF type \in {"datetime", "timestamp", "Date"}
    THEN {SampleDate, DateOf(<<1999, 12, 31>>, <<23, 59, 59>>, "utc")}
    ELSE IF type \in {"json", "simple-json"} THEN JsonValues
    ELSE IF type \in {"simple-array", "set"}
    THEN {Arr(<<Str(TextA)>>), Arr(<<Str(TextA), Str(TextB)>>), Arr(<<>>)}
    ELSE IF type \in {"enum", "simple-enum"} THEN {Str(TextA), Str(TextB), Num(1), Num(2)}
    ELSE IF type = "bit" THEN {Num(0), Num(5), Num(255)}
    ELSE {Str(TextA), Str(<<>>)}

\* the enum lists a column of this type declares
EnumLists(type) ==
    IF type \in {"enum", "simple-enum"}
    THEN {<<Str(TextA), Str(TextB)>>, <<Num(1), Num(2)>>}
    ELSE {<<>>}

\* the values of a column an enum list allows
InEnum(col, x) == ~HasEnum(col) \/ EnumHas(col, x)

MarshalColumns ==
    {Column(type, tr, enum) :
        type \in MarshalTypes, tr \in {NoTransformer, "yesNo", "orZero"},
        enum \in UNION {EnumLists(ty) : ty \in MarshalTypes}}

ValidColumn(col) == col.enum \in EnumLists(col.type)

\* longest bit field a row of the marshaller holds, in bytes
MaxWireBitLen == 2

\* what the client library delivers for a column of this type
WireValues(type) ==
    IF type = "bit"
    THEN {Buf(f) : f \in SeqsUpTo(BitBytes, MaxWireBitLen)}
         \cup {BinStr(f) : f \in SeqsUpTo(BitBytes, MaxWireBitLen)}
    ELSE IF type \in {"datetime", "timestamp", "Date"}
    THEN {Str(DateText(<<2020, 1, 2>>) \o <<" ">> \o TimeText(<<3, 4, 5>>)),
          Str(DateText(<<2020, 1, 2>>) \o <<" ">> \o TimeText(<<3, 4, 5>>) \o <<"Z">>),
          SampleDate}
    ELSE IF type \in {"Boolean", "bool", "boolean"} THEN {Num(0), Num(1)}
    ELSE IF type = "Number" THEN {Num(7), Str(<<"7">>), Str(TextA)}
    ELSE IF type \in {"json", "simple-json"}
    THEN {JSON_stringify(JsonObject), JsonObject, Str(TextA)}
    ELSE IF type = "time" THEN {Str(<<"3", ":", "4", ":", "5">>)}
    ELSE IF type = "simple-array" THEN {Str(<<"Y">>), Str(<<"a", ",", "b">>)}
    ELSE {}

InitMarshal ==
    /\ numberUtils \in NumberUtilsCopies
    /\ bit = NoCall
    /\ bitRet = NoCall
    /\ mcol \in {c \in MarshalColumns : ValidColumn(c)}
    /\ \/ /\ mval \in {x \in AppValues(mcol.type) : InEnum(mcol, x)} \cup {Null, Undefined}
          /\ mpath = <<>>
       \/ /\ mval \in WireValues(mcol.type)
          /\ mpath = <<"wire">>
    /\ morig = mval
    /\ mlog = <<>>
    /\ DiffIdle
    /\ CallIdle
    /\ DriversIdle

\* an entity property is written: preparePersistentValue
Persist ==
    /\ mpath = <<>>
    /\ mval' = preparePersistentValue(mval, mcol)
    /\ mlog' = mlog \o PersistCalls(mval, mcol)
    /\ mpath' = Append(mpath, "persist")
    /\ UNCHANGED <<callVars, numberUtils, instance, driverVars, serverlessVars, mysqlVars, bitVars, mcol, morig, diffVars>>

\* a row field is read: prepareHydratedValue
Hydrate ==
    /\ mpath \in {<<"wire">>, <<"persist">>}
    /\ mval' = prepareHydratedValue(numberUtils, mval, mcol)
    /\ mlog' = mlog \o HydrateCalls(numberUtils, mval, mcol)
    /\ mpath' = Append(mpath, "hydrate")
    /\ UNCHANGED <<callVars, numberUtils, instance, driverVars, serverlessVars, mysqlVars, bitVars, mcol, morig, diffVars>>

NextMarshal == Persist \/ Hydrate

SpecMarshal == InitMarshal /\ [][NextMarshal]_vars

\* C1: on a column without a transformer, hydrating the persisted form of
\* a non-null value gives the value back.
C1_RoundTrip ==
    (mpath = <<"persist", "hydrate">> /\ mcol.transformer = NoTransformer /\ ~IsNullish(morig))
        => mval = morig

-----------------------------------------------------------------------------
(* Text functions of the schema normalizers *)

LowerCase == <<"a", "b", "c", "d", "e", "f", "g", "h", "i", "j", "k", "l", "m",
               "n", "o", "p", "q", "r", "s", "t", "u", "v", "w", "x", "y", "z">>
UpperCase == <<"A", "B", "C", "D", "E", "F", "G", "H", "I", "J", "K", "L", "M",
               "N", "O", "P", "Q", "R", "S", "T", "U", "V", "W", "X", "Y", "Z">>

UpperChar(c) ==
    IF \E i \in 1..26 : LowerCase[i] = c
    THEN UpperCase[CHOOSE i \in 1..26 : LowerCase[i] = c]
    ELSE c

\* text.toUpperCase()
toUpperCase(text) == [i \in 1..Len(text) |-> UpperChar(text[i])]

\* text.indexOf(pattern) !== -1
Contains(text, pattern) ==
    \E i \in 1..(Len(text) - Len(pattern) + 1) :
        SubSeq(text, i, i + Len(pattern) - 1) = pattern

\* whether text[i..j] is "(", one or more digits, ")"
IsPrecisionAt(text, i, j) ==
    /\ j >= i + 2
    /\ text[i] = "(" /\ text[j] = ")"
    /\ \A k \in (i + 1)..(j - 1) : IsDigit(text[k])

HasPrecision(text) ==
    \E i \in 1..Len(text) : \E j \in i..Len(text) : IsPrecisionAt(text, i, j)

\* text.match(/\(\d+\)/)[0]: the leftmost match
PrecisionMatch(text) ==
    LET i == CHOOSE a \in 1..Len(text) :
                 /\ \E j \in a..Len(text) : IsPrecisionAt(text, a, j)
                 /\ \A b \in 1..(a - 1) : ~\E j \in b..Len(text) : IsPrecisionAt(text, b, j)
        j == CHOOSE b \in i..Len(text) : IsPrecisionAt(text, i, b)
    IN SubSeq(text, i, j)

CURRENT_TIMESTAMP ==
    <<"C", "U", "R", "R", "E", "N", "T", "_", "T", "I", "M", "E", "S", "T", "A", "M", "P">>
NOW == <<"N", "O", "W">>

\* normalizeDatetimeFunction that only upper-cases a datetime function
normalizeDatetimeFunctionUpper(value) ==
    IF ~Truthy(value) THEN value
    ELSE IF \/ Contains(toUpperCase(value.v), CURRENT_TIMESTAMP)
            \/ Contains(toUpperCase(value.v), NOW)
    THEN Str(toUpperCase(value.v))
    ELSE value

\* normalizeDatetimeFunction(value)
normalizeDatetimeFunction(value) ==
    IF ~Truthy(value) THEN value
    ELSE LET isDatetimeFunction ==
                 \/ Contains(toUpperCase(value.v), CURRENT_TIMESTAMP)
                 \/ Contains(toUpperCase(value.v), NOW)
         IN IF isDatetimeFunction
            THEN (IF HasPrecision(value.v)
                  THEN Str(CURRENT_TIMESTAMP \o PrecisionMatch(value.v))
                  ELSE Str(CURRENT_TIMESTAMP))
            ELSE value

\* the null character
NUL == "\\0"

\* escapeComment(comment): null bytes removed
escapeComment(comment) ==
    IF ~Truthy(comment) THEN comment
    ELSE Str(SelectSeq(comment.v, LAMBDA c : c # NUL))

\* text.replace(/^'+|'+$/g, ""): every leading and every trailing quote
RECURSIVE StripLeadingQuotes(_)
StripLeadingQuotes(text) ==
    IF text # <<>> /\ text[1] = "'" THEN StripLeadingQuotes(Tail(text)) ELSE text

RECURSIVE StripTrailingQuotes(_)
StripTrailingQuotes(text) ==
    IF text # <<>> /\ text[Len(text)] = "'"
    THEN StripTrailingQuotes(SubSeq(text, 1, Len(text) - 1))
    ELSE text

StripQuotes(text) == StripTrailingQuotes(StripLeadingQuotes(text))

\* compareDefaultValues(columnMetadataValue, databaseValue)
compareDefaultValues(columnMetadataValue, databaseValue) ==
    IF columnMetadataValue.t = "string" /\ databaseValue.t = "string"
    THEN Str(StripQuotes(columnMetadataValue.v)) = Str(StripQuotes(databaseValue.v))
    ELSE columnMetadataValue = databaseValue

Quoted(text) == <<"'">> \o text \o <<"'">>

\* n.toFixed(scale) of a natural number; toFixed(undefined) is toFixed(0)
toFixed(n, scale) ==
    IF scale.t = "number" /\ scale.v > 0
    THEN NatText(n) \o <<".">> \o [i \in 1..scale.v |-> "0"]
    ELSE NatText(n)

\* `${value}`
TemplateText(x) ==
    IF x.t = "array" THEN simpleArrayToString(x).v
    ELSE IF x.t = "object" THEN <<"[", "o", "b", "j", "e", "c", "t", " ", "O", "b", "j", "e", "c", "t", "]">>
    ELSE StringOf(x).v

\* a default given as a function is [t |-> "function", returns |-> value]
Fn(result) == [t |-> "function", returns |-> result]

\* normalizeDefault deciding by the kind of the default before the column type
normalizeDefaultByValueFirst(columnMetadata) ==
    LET defaultValue == columnMetadata.default
    IN IF defaultValue.t = "null" \/ defaultValue.t = "undefined" THEN Undefined
       ELSE IF defaultValue.t = "number"
       THEN Str(Quoted(toFixed(defaultValue.v, columnMetadata.scale)))
       ELSE IF defaultValue.t = "boolean"
       THEN Str(IF defaultValue.v THEN <<"1">> ELSE <<"0">>)
       ELSE IF defaultValue.t = "function"
       THEN normalizeDatetimeFunction(defaultValue.returns)
       ELSE IF columnMetadata.type = "set"
       THEN Str(Quoted(TemplateText(simpleArrayToString(defaultValue))))
       ELSE Str(Quoted(TemplateText(defaultValue)))

\* normalizeDefault(columnMetadata)
normalizeDefault(columnMetadata) ==
    LET defaultValue == columnMetadata.default
    IN IF defaultValue.t = "null" THEN Undefined
       ELSE IF /\ (\/ columnMetadata.type = "enum"
                   \/ columnMetadata.type = "simple-enum"
                   \/ defaultValue.t = "string")
               /\ defaultValue.t # "undefined"
       THEN Str(Quoted(TemplateText(defaultValue)))
       ELSE IF columnMetadata.type = "set" /\ defaultValue.t # "undefined"
       THEN Str(Quoted(TemplateText(simpleArrayToString(defaultValue))))
       ELSE IF defaultValue.t = "number"
       THEN Str(Quoted(toFixed(defaultValue.v, columnMetadata.scale)))
       ELSE IF defaultValue.t = "boolean"
       THEN Str(IF defaultValue.v THEN <<"1">> ELSE <<"0">>)
       ELSE IF defaultValue.t = "function"
       THEN normalizeDatetimeFunction(defaultValue.returns)
       ELSE IF defaultValue.t = "undefined" THEN Undefined
       ELSE Str(TemplateText(defaultValue))

\* normalizeType collapsing the national synonyms one step only
normalizeTypeOneStep(column) ==
    IF column.type = "Number" \/ column.type = "integer" THEN "int"
    ELSE IF column.type = "String" \/ column.type = "uuid" THEN "varchar"
    ELSE IF column.type = "Date" THEN "datetime"
    ELSE IF column.type = "Buffer" THEN "blob"
    ELSE IF column.type \in {"Boolean", "bool", "boolean"} THEN "tinyint"
    ELSE IF column.type = "simple-array" \/ column.type = "simple-json" THEN "text"
    ELSE IF column.type = "simple-enum" THEN "enum"
    ELSE IF column.type = "double precision" \/ column.type = "real" THEN "double"
    ELSE IF column.type \in {"dec", "numeric", "fixed"} THEN "decimal"
    ELSE IF column.type = "national varchar" THEN "nvarchar"
    ELSE IF column.type = "nvarchar" THEN "varchar"
    ELSE IF column.type = "national char" THEN "nchar"
    ELSE IF column.type = "nchar" THEN "char"
    ELSE column.type

\* normalizeType(column)
normalizeType(column) ==
    IF column.type = "Number" \/ column.type = "integer" THEN "int"
    ELSE IF column.type = "String" THEN "varchar"
    ELSE IF column.type = "Date" THEN "datetime"
    ELSE IF column.type = "Buffer" THEN "blob"
    ELSE IF column.type = "Boolean" THEN "tinyint"
    ELSE IF column.type = "uuid" THEN "varchar"
    ELSE IF column.type = "simple-array" \/ column.type = "simple-json" THEN "text"
    ELSE IF column.type = "simple-enum" THEN "enum"
    ELSE IF column.type = "double precision" \/ column.type = "real" THEN "double"
    ELSE IF column.type = "dec" \/ column.type = "numeric" \/ column.type = "fixed"
    THEN "decimal"
    ELSE IF column.type = "bool" \/ column.type = "boolean" THEN "tinyint"
    ELSE IF column.type = "nvarchar" \/ column.type = "national varchar" THEN "varchar"
    ELSE IF column.type = "nchar" \/ column.type = "national char" THEN "char"
    ELSE column.type

\* column.length.toString()
LengthText(length) == IF length.t = "number" THEN Str(NatText(length.v)) ELSE length

\* getColumnLength looking at the type before the generation strategy
getColumnLengthTypeFirst(column) ==
    IF Truthy(column.length) THEN LengthText(column.length)
    ELSE IF column.type \in {"String", "varchar", "nvarchar", "national varchar", "varbinary"}
    THEN Str(<<"2", "5", "5">>)
    ELSE IF column.generationStrategy = "uuid" THEN Str(<<"3", "6">>)
    ELSE Str(<<>>)

\* getColumnLength(column)
getColumnLength(column) ==
    IF Truthy(column.length) THEN LengthText(column.length)
    ELSE IF column.generationStrategy = "uuid" THEN Str(<<"3", "6">>)
    ELSE IF column.type \in {"String", "varchar", "nvarchar", "national varchar"}
    THEN Str(<<"2", "5", "5">>)
    ELSE IF column.type = "varbinary" THEN Str(<<"2", "5", "5">>)
    ELSE Str(<<>>)

\* compareNullableValues(columnMetadata, tableColumn)
compareNullableValues(columnMetadata, tableColumn) ==
    columnMetadata.isNullable = tableColumn.isNullable

\* the values of an array, as a set
Values(a) == {a.v[i] : i \in 1..Len(a.v)}

\* OrmUtils.isArraysEqual(arr1, arr2): the two hold the same values
isArraysEqual(arr1, arr2) == Values(arr1) = Values(arr2)

\* columnMetadata.enum.map((val) => val + "")
EnumTexts(enum) == Arr([i \in 1..Len(enum.v) |-> StringOf(enum.v[i])])

-----------------------------------------------------------------------------
(* The entity model and the live table the schema diff starts from *)

\* ColumnMetadata with the defaults of a plain column
BaseColumn(name, type) ==
    [propertyName |-> name, databaseName |-> name, type |-> type,
     length |-> Str(<<>>), width |-> Undefined, precision |-> Undefined,
     scale |-> Undefined, zerofill |-> FALSE, unsigned |-> FALSE,
     asExpression |-> Undefined, generatedType |-> Undefined, comment |-> Undefined,
     default |-> Undefined, enum |-> Undefined, onUpdate |-> Undefined,
     isPrimary |-> FALSE, isNullable |-> FALSE, isGenerated |-> FALSE,
     generationStrategy |-> "undefined"]

PrecisionText(n) == <<"(">> \o NatText(n) \o <<")">>

NowText == <<"n", "o", "w", "(", ")">>

\* @PrimaryGeneratedColumn("uuid"), with a unique index of its own
UidColumn ==
    [BaseColumn("uid", "uuid") EXCEPT
        !.isPrimary = TRUE, !.isGenerated = TRUE, !.generationStrategy = "uuid"]

\* an enum column with a numeric enum and a default
StatusColumn ==
    [BaseColumn("status", "enum") EXCEPT
        !.enum = Arr(<<Num(1), Num(2)>>), !.default = Num(1), !.isNullable = TRUE]

\* @UpdateDateColumn(): datetime(6), default and on update CURRENT_TIMESTAMP(6)
UpdatedColumn ==
    [BaseColumn("updated", "datetime") EXCEPT
        !.precision = Num(6),
        !.default = Fn(Str(CURRENT_TIMESTAMP \o PrecisionText(6))),
        !.onUpdate = Str(CURRENT_TIMESTAMP \o PrecisionText(6))]

InitialColumnMetadatas == <<UidColumn, StatusColumn, UpdatedColumn>>

InitialIndices ==
    <<[isUnique |-> TRUE, columns |-> <<"uid">>],
      [isUnique |-> FALSE, columns |-> <<"status">>]>>

\* some unique index of idxs has exactly this column
IsUniqueIn(idxs, column) ==
    \E k \in 1..Len(idxs) :
        /\ idxs[k].isUnique
        /\ Len(idxs[k].columns) = 1
        /\ idxs[k].columns[1] = column.propertyName

\* normalizeIsUnique with the value kept from the metadata build
normalizeIsUniqueCached(column) == IsUniqueIn(InitialIndices, column)

\* normalizeIsUnique(column): recomputed from column.entityMetadata.indices
normalizeIsUnique(column) == IsUniqueIn(indices, column)

\* the TableColumn schema introspection reports for a column that was
\* created from its ColumnMetadata (only auto_increment shows as generated)
LiveColumnOf(column, idxs) ==
    [name |-> column.databaseName, type |-> normalizeType(column),
     length |-> getColumnLength(column), width |-> column.width,
     precision |-> column.precision, scale |-> column.scale,
     zerofill |-> column.zerofill, unsigned |-> column.unsigned,
     asExpression |-> column.asExpression, generatedType |-> column.generatedType,
     comment |-> escapeComment(column.comment), default |-> normalizeDefault(column),
     enum |-> IF column.enum.t = "array" THEN EnumTexts(column.enum) ELSE Undefined,
     onUpdate |-> normalizeDatetimeFunction(column.onUpdate),
     isPrimary |-> column.isPrimary, isNullable |-> column.isNullable,
     isUnique |-> IsUniqueIn(idxs, column),
     isGenerated |-> column.isGenerated /\ column.generationStrategy = "increment"]

\* the table as the last synchronization left it (in the table's own order)
InitialTableColumns ==
    <<LiveColumnOf(UpdatedColumn, InitialIndices), LiveColumnOf(UidColumn, InitialIndices),
      LiveColumnOf(StatusColumn, InitialIndices)>>

-----------------------------------------------------------------------------
(* PlanetScaleDriver.findChangedColumns *)

\* the length comparison done on the declared length alone
LengthChangedDeclared(tableColumn, columnMetadata) ==
    tableColumn.length # LengthText(columnMetadata.length)

\* length: the live length against getColumnLength of the entity column
LengthChanged(tableColumn, columnMetadata) ==
    tableColumn.length # getColumnLength(columnMetadata)

\* the precision comparison without its guard
PrecisionChangedUnguarded(tableColumn, columnMetadata) ==
    tableColumn.precision # columnMetadata.precision

\* precision, compared only when the entity column declares one
PrecisionChanged(tableColumn, columnMetadata) ==
    /\ columnMetadata.precision # Undefined
    /\ tableColumn.precision # columnMetadata.precision

\* scale, compared only when the entity column declares one
ScaleChanged(tableColumn, columnMetadata) ==
    /\ columnMetadata.scale # Undefined
    /\ tableColumn.scale # columnMetadata.scale

\* enum, compared only when both sides have a list
EnumChanged(tableColumn, columnMetadata) ==
    /\ Truthy(tableColumn.enum)
    /\ Truthy(columnMetadata.enum)
    /\ ~isArraysEqual(tableColumn.enum, EnumTexts(columnMetadata.enum))

\* onUpdate: the live text against the normalized text of the entity column
OnUpdateChanged(tableColumn, columnMetadata) ==
    tableColumn.onUpdate # normalizeDatetimeFunction(columnMetadata.onUpdate)

\* the isGenerated comparison without the uuid exception
GeneratedChangedAlways(tableColumn, columnMetadata) ==
    tableColumn.isGenerated # columnMetadata.isGenerated

\* isGenerated, not compared for uuid columns
GeneratedChanged(tableColumn, columnMetadata) ==
    /\ columnMetadata.generationStrategy # "uuid"
    /\ tableColumn.isGenerated # columnMetadata.isGenerated

\* isColumnChanged of the filter callback
IsColumnChanged(tableColumn, columnMetadata) ==
    \/ tableColumn.name # columnMetadata.databaseName
    \/ tableColumn.type # normalizeType(columnMetadata)
    \/ LengthChanged(tableColumn, columnMetadata)
    \/ tableColumn.width # columnMetadata.width
    \/ PrecisionChanged(tableColumn, columnMetadata)
    \/ ScaleChanged(tableColumn, columnMetadata)
    \/ tableColumn.zerofill # columnMetadata.zerofill
    \/ tableColumn.unsigned # columnMetadata.unsigned
    \/ tableColumn.asExpression # columnMetadata.asExpression
    \/ tableColumn.generatedType # columnMetadata.generatedType
    \/ tableColumn.comment # escapeComment(columnMetadata.comment)
    \/ ~compareDefaultValues(normalizeDefault(columnMetadata), tableColumn.default)
    \/ EnumChanged(tableColumn, columnMetadata)
    \/ OnUpdateChanged(tableColumn, columnMetadata)
    \/ tableColumn.isPrimary # columnMetadata.isPrimary
    \/ ~compareNullableValues(columnMetadata, tableColumn)
    \/ tableColumn.isUnique # normalizeIsUnique(columnMetadata)
    \/ GeneratedChanged(tableColumn, columnMetadata)

\* tableColumns.find((c) => c.name === columnMetadata.databaseName)
HasTableColumn(tcs, columnMetadata) ==
    \E j \in 1..Len(tcs) : tcs[j].name = columnMetadata.databaseName

FindTableColumn(tcs, columnMetadata) ==
    tcs[CHOOSE j \in 1..Len(tcs) :
            /\ tcs[j].name = columnMetadata.databaseName
            /\ \A k \in 1..(j - 1) : tcs[k].name # columnMetadata.databaseName]

\* the filter callback if columns without a live column counted as changed
IsChangedOrNew(tcs, columnMetadata) ==
    \/ ~HasTableColumn(tcs, columnMetadata)
    \/ IsColumnChanged(FindTableColumn(tcs, columnMetadata), columnMetadata)

\* the filter callback: new columns are skipped, existing ones compared
IsChangedExisting(tcs, columnMetadata) ==
    /\ HasTableColumn(tcs, columnMetadata)
    /\ IsColumnChanged(FindTableColumn(tcs, columnMetadata), columnMetadata)

findChangedColumns(tcs, cms) ==
    SelectSeq(cms, LAMBDA columnMetadata : IsChangedExisting(tcs, columnMetadata))

-----------------------------------------------------------------------------
(* The schema diff as a state machine: the entity model and the live table *)
(* start in step; the model is edited, the table is altered, indices       *)
(* change; findChangedColumns and normalizeIsUnique are called in between. *)

\* how many changes separate the model and the table from their start
MaxEdits == 1

\* most columns an index is given
MaxIndexColumns == 2

BooleanFields == {"zerofill", "unsigned", "isPrimary", "isNullable", "isGenerated", "isUnique"}

Text255 == <<"2", "5", "5">>
Text36 == <<"3", "6">>
Text1 == <<"1">>
Text2 == <<"2">>
Text3 == <<"3">>

\* the values an edit of the entity model gives a field of a column
MetadataValues(f) ==
    IF f = "databaseName" THEN {"renamed"}
    ELSE IF f = "type" THEN {"integer", "nvarchar", "simple-enum", "Date", "text"}
    ELSE IF f = "length" THEN {Str(<<>>), Str(Text36), Str(Text255), Num(100)}
    ELSE IF f = "width" THEN {Undefined, Num(11)}
    ELSE IF f = "precision" THEN {Undefined, Null, Num(6), Num(3)}
    ELSE IF f = "scale" THEN {Undefined, Num(2)}
    ELSE IF f \in BooleanFields THEN BOOLEAN
    ELSE IF f = "asExpression" THEN {Undefined, Str(Text1)}
    ELSE IF f = "generatedType" THEN {Undefined, Str(<<"S", "T", "O", "R", "E", "D">>)}
    ELSE IF f = "comment" THEN {Undefined, Str(<<"c">>), Str(<<"c", NUL>>)}
    ELSE IF f = "default"
    THEN {Undefined, Null, Num(1), Num(2), Str(Text1), Bool(TRUE), Fn(Str(NowText))}
    ELSE IF f = "enum"
    THEN {Undefined, Arr(<<Num(1), Num(2)>>), Arr(<<Num(2), Num(1)>>),
          Arr(<<Str(Text1), Str(Text2)>>), Arr(<<Num(1), Num(3)>>)}
    ELSE IF f = "onUpdate"
    THEN {Undefined, Str(NowText), Str(CURRENT_TIMESTAMP), Str(CURRENT_TIMESTAMP \o PrecisionText(3))}
    ELSE {"undefined", "uuid", "increment"}

MetadataFields ==
    {"databaseName", "type", "length", "width", "precision", "scale", "zerofill",
     "unsigned", "asExpression", "generatedType", "comment", "default", "enum",
     "onUpdate", "isPrimary", "isNullable", "isGenerated", "generationStrategy"}

\* the values an ALTER TABLE leaves in a field of a live column
TableValues(f) ==
    IF f = "name" THEN {"renamed"}
    ELSE IF f = "type" THEN {"int", "varchar", "enum", "datetime", "text"}
    ELSE IF f = "length" THEN {Str(<<>>), Str(Text36), Str(Text255), Str(<<"1", "0", "0">>)}
    ELSE IF f = "width" THEN {Undefined, Num(11)}
    ELSE IF f = "precision" THEN {Undefined, Num(6), Num(3)}
    ELSE IF f = "scale" THEN {Undefined, Num(2)}
    ELSE IF f \in BooleanFields THEN BOOLEAN
    ELSE IF f = "asExpression" THEN {Undefined, Str(Text1)}
    ELSE IF f = "generatedType" THEN {Undefined, Str(<<"S", "T", "O", "R", "E", "D">>)}
    ELSE IF f = "comment" THEN {Undefined, Str(<<"c">>)}
    ELSE IF f = "default"
    THEN {Undefined, Str(Text1), Str(Quoted(Text1)), Str(Quoted(Text2)), Str(CURRENT_TIMESTAMP)}
    ELSE IF f = "enum"
    THEN {Undefined, Arr(<<Str(Text1), Str(Text2)>>), Arr(<<Str(Text2), Str(Text1)>>),
          Arr(<<Str(Text1), Str(Text3)>>)}
    ELSE {Undefined, Str(NowText), Str(<<"n", "o", "w">> \o PrecisionText(6)),
          Str(CURRENT_TIMESTAMP), Str(CURRENT_TIMESTAMP \o PrecisionText(3))}

TableFields ==
    {"name", "type", "length", "width", "precision", "scale", "zerofill", "unsigned",
     "asExpression", "generatedType", "comment", "default", "enum", "onUpdate",
     "isPrimary", "isNullable", "isUnique", "isGenerated"}

InitDiff ==
    /\ numberUtils = "part_000"
    /\ bit = NoCall
    /\ bitRet = NoCall
    /\ MarshalIdle
    /\ tableColumns = InitialTableColumns
    /\ columnMetadatas = InitialColumnMetadatas
    /\ indices = InitialIndices
    /\ changedRet = NoCall
    /\ uniqueRet = NoCall
    /\ edits = 0
    /\ CallIdle
    /\ DriversIdle

\* the entity model is rebuilt with one field of one column changed
EditColumnMetadata ==
    /\ edits < MaxEdits
    /\ \E i \in 1..Len(columnMetadatas) : \E f \in MetadataFields :
         \E v \in MetadataValues(f) :
            /\ columnMetadatas[i][f] # v
            /\ columnMetadatas' = [columnMetadatas EXCEPT ![i][f] = v]
    /\ edits' = edits + 1
    /\ changedRet' = NoCall
    /\ uniqueRet' = NoCall
    /\ UNCHANGED <<callVars, numberUtils, instance, driverVars, serverlessVars, mysqlVars, bitVars, marshalVars, tableColumns, indices>>

\* the live table is altered: one field of one column changes
AlterTableColumn ==
    /\ edits < MaxEdits
    /\ \E j \in 1..Len(tableColumns) : \E f \in TableFields :
         \E v \in TableValues(f) :
            /\ tableColumns[j][f] # v
            /\ tableColumns' = [tableColumns EXCEPT ![j][f] = v]
    /\ edits' = edits + 1
    /\ changedRet' = NoCall
    /\ uniqueRet' = NoCall
    /\ UNCHANGED <<callVars, numberUtils, instance, driverVars, serverlessVars, mysqlVars, bitVars, marshalVars, columnMetadatas, indices>>

\* a column is added to an index of the entity
AddIndexColumn ==
    /\ edits < MaxEdits
    /\ \E k \in 1..Len(indices) : \E i \in 1..Len(columnMetadatas) :
         /\ Len(indices[k].columns) < MaxIndexColumns
         /\ \A n \in 1..Len(indices[k].columns) :
                indices[k].columns[n] # columnMetadatas[i].propertyName
         /\ indices' = [indices EXCEPT
                ![k].columns = Append(@, columnMetadatas[i].propertyName)]
    /\ edits' = edits + 1
    /\ changedRet' = NoCall
    /\ uniqueRet' = NoCall
    /\ UNCHANGED <<callVars, numberUtils, instance, driverVars, serverlessVars, mysqlVars, bitVars, marshalVars, tableColumns, columnMetadatas>>

\* an index becomes unique, or stops being unique
SetIndexUnique ==
    /\ edits < MaxEdits
    /\ \E k \in 1..Len(indices) :
         indices' = [indices EXCEPT ![k].isUnique = ~@]
    /\ edits' = edits + 1
    /\ changedRet' = NoCall
    /\ uniqueRet' = NoCall
    /\ UNCHANGED <<callVars, numberUtils, instance, driverVars, serverlessVars, mysqlVars, bitVars, marshalVars, tableColumns, columnMetadatas>>

\* the schema builder asks which columns changed
CallFindChangedColumns ==
    /\ changedRet = NoCall
    /\ uniqueRet = NoCall
    /\ changedRet' = Returned(findChangedColumns(tableColumns, columnMetadatas))
    /\ uniqueRet' = NoCall
    /\ UNCHANGED <<callVars, numberUtils, instance, driverVars, serverlessVars, mysqlVars, bitVars, marshalVars, tableColumns, columnMetadatas,
                   indices, edits>>

\* normalizeIsUnique is asked about one column
CallNormalizeIsUnique ==
    /\ changedRet = NoCall
    /\ uniqueRet = NoCall
    /\ \E i \in 1..Len(columnMetadatas) :
         uniqueRet' = [t |-> "return", column |-> columnMetadatas[i].propertyName,
                       value |-> normalizeIsUnique(columnMetadatas[i])]
    /\ changedRet' = NoCall
    /\ UNCHANGED <<callVars, numberUtils, instance, driverVars, serverlessVars, mysqlVars, bitVars, marshalVars, tableColumns, columnMetadatas,
                   indices, edits>>

NextDiff ==
    \/ EditColumnMetadata
    \/ AlterTableColumn
    \/ AddIndexColumn
    \/ SetIndexUnique
    \/ CallFindChangedColumns
    \/ CallNormalizeIsUnique

SpecDiff == InitDiff /\ [][NextDiff]_vars

-----------------------------------------------------------------------------
(* Properties of findChangedColumns and normalizeIsUnique *)

\* the columns the last call of findChangedColumns returned
ReturnedColumns == {changedRet.value[n] : n \in 1..Len(changedRet.value)}

\* the live column findChangedColumns pairs with the i-th entity column
LiveOf(i) == FindTableColumn(tableColumns, columnMetadatas[i])

\* the same pair as the last synchronization left it
InitialLiveOf(i) == FindTableColumn(InitialTableColumns, InitialColumnMetadatas[i])

\* the i-th entity column and its live column are as the synchronization
\* left them, except possibly in the given fields
SyncedExcept(i, fields) ==
    /\ HasTableColumn(tableColumns, columnMetadatas[i])
    /\ \A f \in MetadataFields \ fields :
           columnMetadatas[i][f] = InitialColumnMetadatas[i][f]
    /\ \A f \in TableFields \ fields : LiveOf(i)[f] = InitialLiveOf(i)[f]
    /\ IsUniqueIn(indices, columnMetadatas[i])
           = IsUniqueIn(InitialIndices, columnMetadatas[i])

\* only the declared length of the i-th entity column was changed
LengthOnlyEdited(i) ==
    /\ SyncedExcept(i, {"length"})
    /\ LiveOf(i).length = InitialLiveOf(i).length
    /\ columnMetadatas[i].length # InitialColumnMetadatas[i].length

\* C5: findChangedColumns returns a sub-sequence of the given entity columns,
\* the column objects themselves in their original order; every returned
\* column has a live column of the same database name, so a column the table
\* lacks is never returned and a live column without a counterpart adds nothing.
C5_SubSequence ==
    changedRet.t = "return" =>
        /\ changedRet.value
               = SelectSeq(columnMetadatas, LAMBDA c : c \in ReturnedColumns)
        /\ \A c \in ReturnedColumns :
               \E j \in 1..Len(tableColumns) : tableColumns[j].name = c.databaseName

C5_Witness ==
    /\ changedRet.t = "return"
    /\ \E i \in 1..Len(columnMetadatas) :
           ~HasTableColumn(tableColumns, columnMetadatas[i])
    /\ \E j \in 1..Len(tableColumns) :
           \A i \in 1..Len(columnMetadatas) :
               columnMetadatas[i].databaseName # tableColumns[j].name

\* C6 as stated: an entity column equal to its live column in every compared
\* field is not returned, and once only its declared length is changed it is
\* returned.
C6_LengthEditReturned ==
    changedRet.t = "return" =>
        \A i \in 1..Len(columnMetadatas) :
            /\ SyncedExcept(i, {}) => columnMetadatas[i] \notin ReturnedColumns
            /\ LengthOnlyEdited(i) => columnMetadatas[i] \in ReturnedColumns

\* C6: an entity column equal to its live column in every compared field is
\* not returned; once only its declared length is changed it is returned
\* exactly when getColumnLength of the column no longer equals the live length.
C6_LengthCompared ==
    changedRet.t = "return" =>
        \A i \in 1..Len(columnMetadatas) :
            /\ SyncedExcept(i, {}) => columnMetadatas[i] \notin ReturnedColumns
            /\ LengthOnlyEdited(i) =>
                   (columnMetadatas[i] \in ReturnedColumns
                       <=> getColumnLength(columnMetadatas[i]) # LiveOf(i).length)

C6_Witness ==
    /\ changedRet.t = "return"
    /\ \E i \in 1..Len(columnMetadatas) :
           /\ LengthOnlyEdited(i)
           /\ columnMetadatas[i] \notin ReturnedColumns
    /\ \E i \in 1..Len(columnMetadatas) : SyncedExcept(i, {})

\* C7: two onUpdate expressions that normalizeDatetimeFunction maps to the
\* same text (live "now(6)" against "CURRENT_TIMESTAMP(6)" of the entity, or
\* the same spelling on both sides) never mark the column as changed.
C7_OnUpdateNormalizedBothSides ==
    changedRet.t = "return" =>
        \A i \in 1..Len(columnMetadatas) :
            (/\ SyncedExcept(i, {"onUpdate"})
             /\ normalizeDatetimeFunction(LiveOf(i).onUpdate)
                    = normalizeDatetimeFunction(columnMetadatas[i].onUpdate))
            => columnMetadatas[i] \notin ReturnedColumns

\* C8: for an entity column whose generation strategy is uuid a difference
\* between live and desired isGenerated does not mark the column as changed;
\* for any other strategy such a difference always does.
C8_UuidSkipsGenerated ==
    changedRet.t = "return" =>
        \A i \in 1..Len(columnMetadatas) :
            /\ (/\ columnMetadatas[i].generationStrategy = "uuid"
                /\ SyncedExcept(i, {"isGenerated"}))
               => columnMetadatas[i] \notin ReturnedColumns
            /\ (/\ columnMetadatas[i].generationStrategy # "uuid"
                /\ HasTableColumn(tableColumns, columnMetadatas[i])
                /\ LiveOf(i).isGenerated # columnMetadatas[i].isGenerated)
               => columnMetadatas[i] \in ReturnedColumns

C8_Witness ==
    /\ changedRet.t = "return"
    /\ \E i \in 1..Len(columnMetadatas) :
           /\ columnMetadatas[i].generationStrategy = "uuid"
           /\ SyncedExcept(i, {"isGenerated"})
           /\ LiveOf(i).isGenerated # columnMetadatas[i].isGenerated
           /\ columnMetadatas[i] \notin ReturnedColumns
    /\ \E i \in 1..Len(columnMetadatas) :
           /\ columnMetadatas[i].generationStrategy # "uuid"
           /\ HasTableColumn(tableColumns, columnMetadatas[i])
           /\ LiveOf(i).isGenerated # columnMetadatas[i].isGenerated
           /\ columnMetadatas[i] \in ReturnedColumns

\* the texts of an enum list of the entity, as a set
EnumTextSet(enum) == {StringOf(enum.v[n]) : n \in 1..Len(enum.v)}

C10_UniqueRecomputed ==
    uniqueRet.t = "return" =>
        (uniqueRet.value
            <=> \E k \in 1..Len(indices) :
                    /\ indices[k].isUnique
                    /\ indices[k].columns = <<uniqueRet.column>>)

C10_Witness ==
    /\ uniqueRet.t = "return"
    /\ uniqueRet.value = FALSE
    /\ IsUniqueIn(InitialIndices, [propertyName |-> uniqueRet.column])
    /\ \E k \in 1..Len(indices) :
           /\ indices[k].isUnique
           /\ Len(indices[k].columns) = 2
           /\ indices[k].columns[1] = uniqueRet.column

-----------------------------------------------------------------------------
(* The normalizers as a state machine: a call with its arguments is drawn, *)
(* the function is applied; the result of normalizeDatetimeFunction or     *)
(* normalizeType may be handed to the same function again.                 *)

\* longest default text compared, in characters
MaxDefaultLen == 3

CurrentText == <<"C", "U", "R", "R", "E", "N", "T">>

\* default texts: every text of quotes and letters up to MaxDefaultLen, and
\* CURRENT plain, quoted once and a letter quoted twice
DefaultTexts ==
    SeqsUpTo({"'", "a", "b"}, MaxDefaultLen)
        \cup {CurrentText, Quoted(CurrentText), Quoted(Quoted(<<"a">>))}

\* what normalizeDefault and schema introspection hand to compareDefaultValues
DefaultValues == {Str(text) : text \in DefaultTexts} \cup {Undefined}

CompareDefaultValuesCalls ==
    {[t |-> "compareDefaultValues", columnMetadataValue |-> a, databaseValue |-> b] :
        a \in DefaultValues, b \in DefaultValues}

\* the defaults an entity column declares
ColumnDefaults ==
    {Undefined, Null, Num(0), Num(5), Str(<<>>), Str(<<"a">>), Bool(TRUE), Bool(FALSE),
     Fn(Str(NowText)), Fn(Str(CURRENT_TIMESTAMP \o PrecisionText(3))), Fn(Str(<<"a">>)),
     Arr(<<Str(<<"a">>), Str(<<"b">>)>>), PlainObject}

NormalizeDefaultCalls ==
    {[t |-> "normalizeDefault",
      columnMetadata |-> [type |-> type, default |-> default, scale |-> scale]] :
        type \in {"enum", "simple-enum", "set", "int", "varchar"},
        default \in ColumnDefaults,
        scale \in {Undefined, Num(0), Num(2)}}

\* longest run of parentheses and digits next to a function name
MaxSuffixLen == 3

\* texts given as a default function's result or as onUpdate: a name, with a
\* run of parentheses and digits after it or before it
DatetimeTexts ==
    LET names == {<<>>, <<"a">>, <<"s", "n", "o", "w">>, <<"n", "o", "w">>, NOW,
                  <<"N", "o", "w">>, CURRENT_TIMESTAMP,
                  <<"c", "u", "r", "r", "e", "n", "t", "_", "t", "i", "m", "e", "s", "t", "a", "m", "p">>}
        runs == SeqsUpTo({"(", ")", "3", "1"}, MaxSuffixLen)
    IN {n \o r : n \in names, r \in runs} \cup {r \o n : n \in names, r \in runs}

NormalizeDatetimeFunctionCalls ==
    {[t |-> "normalizeDatetimeFunction", value |-> v, again |-> FALSE] :
        v \in {Str(text) : text \in DatetimeTexts} \cup {Undefined}}

\* column types: the constructors, the aliases, dialect types and unknown names
ColumnTypes ==
    {"Number", "String", "Date", "Buffer", "Boolean", "integer", "uuid", "simple-array",
     "simple-json", "simple-enum", "double precision", "real", "dec", "numeric", "fixed",
     "bool", "boolean", "nvarchar", "national varchar", "nchar", "national char",
     "int", "varchar", "datetime", "blob", "tinyint", "text", "enum", "double", "decimal",
     "char", "varbinary", "json", "bit", "set", "geometry", "",
     "INT", "nUmeric", "my-type"}

NormalizeTypeCalls ==
    {[t |-> "normalizeType", column |-> [type |-> type], again |-> FALSE] :
        type \in ColumnTypes}

\* columns as getColumnLength reads them; a column is generated exactly when
\* it has a generation strategy
GetColumnLengthCalls ==
    {[t |-> "getColumnLength",
      column |-> [type |-> type, length |-> length, generationStrategy |-> strategy,
                  isPrimary |-> primary, isGenerated |-> strategy # "undefined"]] :
        type \in {"String", "varchar", "nvarchar", "national varchar", "varbinary",
                  "int", "uuid", "char", "text"},
        length \in {Undefined, Str(<<>>), Str(<<"1", "0", "0">>), Num(100), Num(0)},
        strategy \in {"undefined", "uuid", "increment"},
        primary \in BOOLEAN}

NormalizerCalls ==
    CompareDefaultValuesCalls \cup NormalizeDefaultCalls
        \cup NormalizeDatetimeFunctionCalls \cup NormalizeTypeCalls
        \cup GetColumnLengthCalls

InitNormalize ==
    /\ numberUtils = "part_000"
    /\ bit = NoCall
    /\ bitRet = NoCall
    /\ MarshalIdle
    /\ DiffIdle
    /\ call \in NormalizerCalls
    /\ callRet = NoCall
    /\ DriversIdle

CallCompareDefaultValues ==
    /\ call.t = "compareDefaultValues"
    /\ callRet = NoCall
    /\ callRet' = Returned(compareDefaultValues(call.columnMetadataValue, call.databaseValue))
    /\ UNCHANGED <<call, numberUtils, instance, driverVars, serverlessVars, mysqlVars, bitVars, marshalVars, diffVars>>

CallNormalizeDefault ==
    /\ call.t = "normalizeDefault"
    /\ callRet = NoCall
    /\ callRet' = Returned(normalizeDefault(call.columnMetadata))
    /\ UNCHANGED <<call, numberUtils, instance, driverVars, serverlessVars, mysqlVars, bitVars, marshalVars, diffVars>>

CallNormalizeDatetimeFunction ==
    /\ call.t = "normalizeDatetimeFunction"
    /\ callRet = NoCall
    /\ callRet' = Returned(normalizeDatetimeFunction(call.value))
    /\ UNCHANGED <<call, numberUtils, instance, driverVars, serverlessVars, mysqlVars, bitVars, marshalVars, diffVars>>

\* the result of normalizeDatetimeFunction is normalized again
NormalizeDatetimeFunctionAgain ==
    /\ call.t = "normalizeDatetimeFunction"
    /\ ~call.again
    /\ callRet.t = "return"
    /\ call' = [call EXCEPT !.value = callRet.value, !.again = TRUE]
    /\ callRet' = NoCall
    /\ UNCHANGED <<numberUtils, instance, driverVars, serverlessVars, mysqlVars, bitVars, marshalVars, diffVars>>

CallNormalizeType ==
    /\ call.t = "normalizeType"
    /\ callRet = NoCall
    /\ callRet' = Returned(normalizeType(call.column))
    /\ UNCHANGED <<call, numberUtils, instance, driverVars, serverlessVars, mysqlVars, bitVars, marshalVars, diffVars>>

\* a column whose type is a result of normalizeType is normalized
NormalizeTypeAgain ==
    /\ call.t = "normalizeType"
    /\ ~call.again
    /\ callRet.t = "return"
    /\ call' = [call EXCEPT !.column.type = callRet.value, !.again = TRUE]
    /\ callRet' = NoCall
    /\ UNCHANGED <<numberUtils, instance, driverVars, serverlessVars, mysqlVars, bitVars, marshalVars, diffVars>>

CallGetColumnLength ==
    /\ call.t = "getColumnLength"
    /\ callRet = NoCall
    /\ callRet' = Returned(getColumnLength(call.column))
    /\ UNCHANGED <<call, numberUtils, instance, driverVars, serverlessVars, mysqlVars, bitVars, marshalVars, diffVars>>

NextNormalize ==
    \/ CallGetColumnLength
    \/ CallNormalizeType
    \/ NormalizeTypeAgain
    \/ CallCompareDefaultValues
    \/ CallNormalizeDefault
    \/ CallNormalizeDatetimeFunction
    \/ NormalizeDatetimeFunctionAgain

SpecNormalize == InitNormalize /\ [][NextNormalize]_vars

-----------------------------------------------------------------------------
(* Properties of the normalizers *)

\* text without one leading and one trailing single quote
StripOneLayer(text) ==
    LET lead == IF text # <<>> /\ text[1] = "'" THEN Tail(text) ELSE text
    IN IF lead # <<>> /\ lead[Len(lead)] = "'"
       THEN SubSeq(lead, 1, Len(lead) - 1)
       ELSE lead

\* C11: compareDefaultValues removes exactly one layer of leading and
\* trailing single quotes from each side when both are strings and then
\* compares: "'CURRENT'" equals "CURRENT", "'a'" differs from "'b'", and
\* "''a''" differs from "a".
C11_OneLayerOfQuotes ==
    (call.t = "compareDefaultValues" /\ callRet.t = "return") =>
        callRet.value
            = IF call.columnMetadataValue.t = "string" /\ call.databaseValue.t = "string"
              THEN StripOneLayer(call.columnMetadataValue.v)
                       = StripOneLayer(call.databaseValue.v)
              ELSE call.columnMetadataValue = call.databaseValue

\* the rules of normalizeDefault in their order; the column-type rules apply
\* to a declared default; quoteNumber says whether the formatted number is
\* put in single quotes
DefaultByRules(c, quoteNumber) ==
    LET d == c.default
    IN IF d.t = "null" THEN Undefined
       ELSE IF /\ (c.type \in {"enum", "simple-enum"} \/ d.t = "string")
               /\ d.t # "undefined"
       THEN Str(Quoted(TemplateText(d)))
       ELSE IF c.type = "set" /\ d.t # "undefined"
       THEN Str(Quoted(TemplateText(simpleArrayToString(d))))
       ELSE IF d.t = "number"
       THEN Str(IF quoteNumber THEN Quoted(toFixed(d.v, c.scale)) ELSE toFixed(d.v, c.scale))
       ELSE IF d.t = "boolean" THEN Str(IF d.v THEN <<"1">> ELSE <<"0">>)
       ELSE IF d.t = "function" THEN normalizeDatetimeFunction(d.returns)
       ELSE IF d.t = "undefined" THEN Undefined
       ELSE Str(TemplateText(d))

\* C12 as stated: the rules in their order, the numeric rule giving the
\* number formatted to the declared scale.
C12_RulesAsStated ==
    (call.t = "normalizeDefault" /\ callRet.t = "return") =>
        callRet.value = DefaultByRules(call.columnMetadata, FALSE)

\* C12: normalizeDefault applies its rules in order, the first match deciding:
\* null gives absent; an enum or simple-enum column or a string default gives
\* the quoted literal and a set column the quoted comma-joined literal; a
\* number gives the number formatted to the scale, in single quotes like the
\* literals before it; a boolean 1 or 0; a function its normalized result; undefined
\* gives absent; anything else is stringified.
C12_RulesInOrder ==
    (call.t = "normalizeDefault" /\ callRet.t = "return") =>
        callRet.value = DefaultByRules(call.columnMetadata, TRUE)

C12_Witness ==
    /\ call.t = "normalizeDefault"
    /\ callRet.t = "return"
    /\ call.columnMetadata.type = "enum"
    /\ call.columnMetadata.default = Num(5)
    /\ call.columnMetadata.scale = Num(2)
    /\ callRet.value = Str(<<"'", "5", "'">>)

\* text holds "(", digits, ")" from position i on, and nowhere before
FirstPrecisionAt(text, i, j) ==
    /\ IsPrecisionAt(text, i, j)
    /\ \A a \in 1..(i - 1) : \A b \in a..Len(text) : ~IsPrecisionAt(text, a, b)

\* the upper-cased text names the current-timestamp function
NamesCurrentTimestamp(text) ==
    \E i \in 1..Len(text) :
        \/ /\ i + 2 <= Len(text)
           /\ toUpperCase(SubSeq(text, i, i + 2)) = <<"N", "O", "W">>
        \/ /\ i + Len(CURRENT_TIMESTAMP) - 1 <= Len(text)
           /\ toUpperCase(SubSeq(text, i, i + Len(CURRENT_TIMESTAMP) - 1)) = CURRENT_TIMESTAMP

\* C13: normalizeDatetimeFunction gives CURRENT_TIMESTAMP followed by the
\* value's first parenthesized number (nothing when there is none) when the
\* upper-cased value contains NOW or CURRENT_TIMESTAMP, the value itself
\* otherwise; applied to its own result it gives that result again.
C13_NormalizeDatetimeFunction ==
    (call.t = "normalizeDatetimeFunction" /\ callRet.t = "return") =>
        /\ IF call.value.t = "string" /\ NamesCurrentTimestamp(call.value.v)
           THEN /\ callRet.value.t = "string"
                /\ \/ /\ callRet.value.v = CURRENT_TIMESTAMP
                      /\ \A i \in 1..Len(call.value.v) : \A j \in i..Len(call.value.v) :
                             ~IsPrecisionAt(call.value.v, i, j)
                   \/ \E i \in 1..Len(call.value.v) : \E j \in i..Len(call.value.v) :
                          /\ FirstPrecisionAt(call.value.v, i, j)
                          /\ callRet.value.v
                                 = CURRENT_TIMESTAMP \o SubSeq(call.value.v, i, j)
           ELSE callRet.value = call.value
        /\ call.again => callRet.value = call.value

C13_Witness ==
    /\ call.t = "normalizeDatetimeFunction"
    /\ call.again
    /\ callRet.t = "return"
    /\ callRet.value = Str(CURRENT_TIMESTAMP \o PrecisionText(3))

\* the aliases and their canonical types
TypeAliases ==
    {<<"Number", "int">>, <<"integer", "int">>, <<"String", "varchar">>,
     <<"Date", "datetime">>, <<"Buffer", "blob">>, <<"Boolean", "tinyint">>,
     <<"bool", "tinyint">>, <<"boolean", "tinyint">>, <<"uuid", "varchar">>,
     <<"nvarchar", "varchar">>, <<"national varchar", "varchar">>,
     <<"nchar", "char">>, <<"national char", "char">>,
     <<"simple-array", "text">>, <<"simple-json", "text">>, <<"simple-enum", "enum">>,
     <<"double precision", "double">>, <<"real", "double">>,
     <<"dec", "decimal">>, <<"numeric", "decimal">>, <<"fixed", "decimal">>}

\* C14: normalizeType returns (never throws), gives every alias its canonical
\* type and any other type unchanged; applied to a column whose type is one
\* of its results it gives that result again.
C14_NormalizeType ==
    (call.t = "normalizeType" /\ callRet # NoCall) =>
        /\ callRet.t = "return"
        /\ \A p \in TypeAliases : call.column.type = p[1] => callRet.value = p[2]
        /\ (\A p \in TypeAliases : call.column.type # p[1])
               => callRet.value = call.column.type
        /\ call.again => callRet.value = call.column.type

C14_Witness ==
    /\ call.t = "normalizeType"
    /\ call.again
    /\ call.column.type = "decimal"
    /\ callRet = Returned("decimal")

\* an explicit length is set: a non-empty text or a number other than 0
HasLength(c) ==
    \/ c.length.t = "string" /\ c.length.v # <<>>
    \/ c.length.t = "number" /\ c.length.v # 0

\* the length by the precedence of the rules, for a column that the uuid
\* rule applies to or not
LengthByRules(c, uuidRule) ==
    IF HasLength(c)
    THEN (IF c.length.t = "number" THEN NatText(c.length.v) ELSE c.length.v)
    ELSE IF uuidRule THEN <<"3", "6">>
    ELSE IF c.type \in {"String", "varchar", "nvarchar", "national varchar", "varbinary"}
    THEN <<"2", "5", "5">>
    ELSE <<>>

\* C15 as stated: the explicit length; else "36" for a uuid-generated primary
\* key; else "255" for the variable-length types; else the empty string.
C15_UuidPrimaryKey ==
    (call.t = "getColumnLength" /\ callRet.t = "return") =>
        callRet.value.v
            = LengthByRules(call.column,
                            call.column.generationStrategy = "uuid" /\ call.column.isPrimary)

\* C15: the explicit length; else "36" for a column whose generation strategy
\* is uuid, primary key or not; else "255" for the variable-length types; else
\* the empty string.
C15_LengthPrecedence ==
    (call.t = "getColumnLength" /\ callRet.t = "return") =>
        /\ callRet.value.t = "string"
        /\ callRet.value.v
               = LengthByRules(call.column, call.column.generationStrategy = "uuid")

C15_Witness ==
    /\ call.t = "getColumnLength"
    /\ callRet = Returned(Str(<<"3", "6">>))
    /\ call.column.type = "varchar"
    /\ ~call.column.isPrimary
    /\ ~HasLength(call.column)

-----------------------------------------------------------------------------
(* Properties of the marshaller's null handling and transformer calls *)

\* the value after the outbound transformer of the column, if it has one
Outbound(col, x) ==
    IF col.transformer = NoTransformer THEN x ELSE TransformerTo(col.transformer, x)

\* C16: preparePersistentValue calls the outbound transformer first whenever
\* the column declares one, also on null and undefined; a value that is null
\* or undefined after that step is returned as it is, any other value goes
\* through the type conversion; without a transformer null and undefined
\* come back unchanged whatever the column type.
C16_TransformerBeforeNullCheck ==
    mpath = <<"persist">> =>
        /\ mcol.transformer # NoTransformer => mlog = <<[fn |-> "to", arg |-> morig]>>
        /\ mcol.transformer = NoTransformer => mlog = <<>>
        /\ IsNullish(Outbound(mcol, morig)) => mval = Outbound(mcol, morig)
        /\ ~IsNullish(Outbound(mcol, morig))
               => mval = PersistByType(Outbound(mcol, morig), mcol)
        /\ (mcol.transformer = NoTransformer /\ IsNullish(morig)) => mval = morig

C16_Witness ==
    /\ mpath = <<"persist">>
    /\ mcol.transformer = "orZero"
    /\ mcol.type = "enum"
    /\ morig = Null
    /\ mlog = <<[fn |-> "to", arg |-> Null]>>
    /\ mval = Str(<<"0">>)

\* the wire value the last prepareHydratedValue call was given
HydrateInput ==
    IF mpath[1] = "wire" THEN morig ELSE preparePersistentValue(morig, mcol)

\* the inbound transformer calls logged so far
InboundCalls == SelectSeq(mlog, LAMBDA c : c.fn = "from")

\* C17: a prepareHydratedValue call that returns applies the inbound
\* transformer exactly once when the column declares one, never otherwise:
\* to the null or undefined wire value itself, or else to the value the type
\* dispatch produced, and its result is what the call returns.
C17_InboundTransformerOnce ==
    (Len(mpath) = 2 /\ mpath[2] = "hydrate" /\ mval.t # "throw") =>
        LET typed == IF IsNullish(HydrateInput) THEN HydrateInput
                     ELSE HydrateByType(numberUtils, HydrateInput, mcol)
        IN IF mcol.transformer = NoTransformer
           THEN InboundCalls = <<>> /\ mval = typed
           ELSE /\ InboundCalls = <<[fn |-> "from", arg |-> typed]>>
                /\ mval = TransformerFrom(mcol.transformer, typed)

C17_Witness ==
    /\ mpath = <<"wire", "hydrate">>
    /\ mcol.transformer = "yesNo"
    /\ mcol.type = "simple-array"
    /\ morig = Str(<<"Y">>)
    /\ mlog = <<[fn |-> "from", arg |-> Arr(<<Str(<<"Y">>)>>)]>>
    /\ mval = Arr(<<Str(<<"Y">>)>>)

\* C18: hydrating a datetime or Date column from a string appends the UTC
\* marker Z only when the string does not end with one; a string ending with
\* Z and a value that is not a string reach the date normalization unchanged.
C18_UtcMarkerOnlyIfMissing ==
    (/\ mpath = <<"wire", "hydrate">>
     /\ mcol.type \in {"datetime", "Date"}
     /\ mcol.transformer = NoTransformer) =>
        mval = normalizeHydratedDate(
                   IF /\ morig.t = "string"
                      /\ (morig.v = <<>> \/ morig.v[Len(morig.v)] # "Z")
                   THEN Str(morig.v \o <<"Z">>)
                   ELSE morig)

-----------------------------------------------------------------------------
(* PlanetScaleDriver.escapeQueryWithParameters *)

\* an ObjectLiteral: its own keys in Object.keys order, each with its value
Obj(entries) == [t |-> "object", entries |-> entries]

Entry(key, value) == [key |-> key, value |-> value]

\* parameters.hasOwnProperty(key)
HasOwnProperty(object, key) ==
    \E n \in 1..Len(object.entries) : object.entries[n].key = key

\* parameters[key]
Property(object, key) ==
    object.entries[CHOOSE n \in 1..Len(object.entries) : object.entries[n].key = key].value

\* Object.keys(nativeParameters).map((key) => nativeParameters[key])
ObjectValues(object) == [n \in 1..Len(object.entries) |-> object.entries[n].value]

\* [A-Za-z0-9_.]
IsKeyChar(c) ==
    \/ IsDigit(c)
    \/ c \in {"_", "."}
    \/ \E n \in 1..26 : LowerCase[n] = c \/ UpperCase[n] = c

\* the longest run of key characters of sql from position i on
RECURSIVE KeyRun(_, _)
KeyRun(sql, i) ==
    IF i <= Len(sql) /\ IsKeyChar(sql[i]) THEN <<sql[i]>> \o KeyRun(sql, i + 1) ELSE <<>>

\* (\.\.\.)? matches when three dots are followed by at least one key character
IsArrayRun(run) == Len(run) > 3 /\ SubSeq(run, 1, 3) = <<".", ".", ".">>

\* createParameter(parameterName, index)
createParameter == <<"?">>

\* value.map(...).join(", ") for an array of n elements
RECURSIVE JoinedParameters(_)
JoinedParameters(n) ==
    IF n = 0 THEN <<>>
    ELSE IF n = 1 THEN createParameter
    ELSE createParameter \o <<",", " ">> \o JoinedParameters(n - 1)

\* a variant that drops a placeholder whose key the parameters do not have
UnknownTokenDropped(full) == <<>>

\* a placeholder whose key the parameters do not have is left as it stands
UnknownToken(full) == full

\* sql.replace(/:(\.\.\.)?([A-Za-z0-9_.]+)/g, callback) from position i on:
\* out is the text produced so far, escapedParameters the values pushed so far
RECURSIVE Replace(_, _, _, _, _)
Replace(sql, i, parameters, out, escapedParameters) ==
    IF i > Len(sql) THEN Returned([sql |-> out, values |-> escapedParameters])
    ELSE IF sql[i] = ":" /\ KeyRun(sql, i + 1) # <<>>
    THEN LET run == KeyRun(sql, i + 1)
             isArray == IsArrayRun(run)
             key == IF isArray THEN SubSeq(run, 4, Len(run)) ELSE run
             full == <<":">> \o run
             rest == i + 1 + Len(run)
         IN IF ~HasOwnProperty(parameters, key)
            THEN Replace(sql, rest, parameters, out \o UnknownToken(full), escapedParameters)
            ELSE LET value == Property(parameters, key)
                 IN IF isArray
                    THEN (IF value.t # "array" THEN Thrown("TypeError")
                          ELSE Replace(sql, rest, parameters,
                                       out \o JoinedParameters(Len(value.v)),
                                       escapedParameters \o value.v))
                    ELSE IF value.t = "function"
                    THEN Replace(sql, rest, parameters, out \o value.returns.v,
                                 escapedParameters)
                    ELSE Replace(sql, rest, parameters, out \o createParameter,
                                 Append(escapedParameters, value))
    ELSE Replace(sql, i + 1, parameters, out \o <<sql[i]>>, escapedParameters)

\* escapeQueryWithParameters with the native values put after the bound ones
escapeQueryWithParametersNativeLast(sql, parameters, nativeParameters) ==
    IF parameters.t # "object" \/ parameters.entries = <<>>
    THEN Returned([sql |-> sql, values |-> ObjectValues(nativeParameters)])
    ELSE LET r == Replace(sql, 1, parameters, <<>>, <<>>)
         IN IF r.t = "throw" THEN r
            ELSE Returned([sql |-> r.value.sql,
                           values |-> r.value.values \o ObjectValues(nativeParameters)])

\* escapeQueryWithParameters(sql, parameters, nativeParameters)
escapeQueryWithParameters(sql, parameters, nativeParameters) ==
    IF parameters.t # "object" \/ parameters.entries = <<>>
    THEN Returned([sql |-> sql, values |-> ObjectValues(nativeParameters)])
    ELSE Replace(sql, 1, parameters, <<>>, ObjectValues(nativeParameters))

-----------------------------------------------------------------------------
(* The parameter binder as a state machine: a statement with its parameters *)
(* is drawn and escapeQueryWithParameters is called on it.                  *)

\* longest SQL text drawn from the characters, in characters
MaxSqlLen == 5

SqlInList ==
    <<"W", "H", "E", "R", "E", " ", "a", " ", "=", " ", ":", "x", " ", "A", "N", "D",
      " ", "b", " ", "I", "N", " ", "(", ":", ".", ".", ".", "y", ")">>

SqlTimeLiteral ==
    <<"t", " ", ">", " ", "'", "1", "2", ":", "3", "0", "'", " ", "A", "N", "D", " ",
      "a", " ", "=", " ", ":", "x">>

SqlMarker ==
    <<"a", " ", "=", " ", "?", " ", "A", "N", "D", " ", "b", " ", "=", " ", ":", "x",
      " ", "A", "N", "D", " ", "c", " ", "=", " ", ":", "z">>

SqlSpreadTwice ==
    <<"(", ":", ".", ".", ".", "y", ")", " ", "O", "R", " ", "(", ":", ".", ".", ".",
      "x", ")", " ", "O", "R", " ", ":", "y">>

\* SQL texts: every text of colons, dots, a key letter and blanks up to
\* MaxSqlLen, and four statements
SqlTexts ==
    SeqsUpTo({":", ".", "x", " "}, MaxSqlLen)
        \cup {SqlInList, SqlTimeLiteral, SqlMarker, SqlSpreadTwice}

KeyX == <<"x">>
KeyY == <<"y">>

\* the named parameters of a query: absent, empty, or values for x and y
NamedParameters ==
    {Undefined, Null, Obj(<<>>),
     Obj(<<Entry(KeyX, Num(5))>>),
     Obj(<<Entry(KeyX, Arr(<<Num(1), Num(2)>>))>>),
     Obj(<<Entry(KeyX, Fn(Str(<<"n", "o", "w", "(", ")", " ", ":", "x">>)))>>),
     Obj(<<Entry(KeyX, Num(5)), Entry(KeyY, Arr(<<Num(1), Num(2), Num(3)>>))>>),
     Obj(<<Entry(KeyY, Num(7))>>)}

NativeParameters ==
    {Obj(<<>>), Obj(<<Entry(<<"a">>, Num(8)), Entry(<<"b">>, Str(<<"s">>))>>)}

BindCalls ==
    {[t |-> "escapeQueryWithParameters", sql |-> sql, parameters |-> parameters,
      nativeParameters |-> nativeParameters] :
        sql \in SqlTexts, parameters \in NamedParameters,
        nativeParameters \in NativeParameters}

InitBind ==
    /\ numberUtils = "part_000"
    /\ bit = NoCall
    /\ bitRet = NoCall
    /\ MarshalIdle
    /\ DiffIdle
    /\ call \in BindCalls
    /\ callRet = NoCall
    /\ DriversIdle

CallEscapeQueryWithParameters ==
    /\ call.t = "escapeQueryWithParameters"
    /\ callRet = NoCall
    /\ callRet' = escapeQueryWithParameters(call.sql, call.parameters, call.nativeParameters)
    /\ UNCHANGED <<call, numberUtils, instance, driverVars, serverlessVars, mysqlVars, bitVars, marshalVars, diffVars>>

NextBind == CallEscapeQueryWithParameters

SpecBind == InitBind /\ [][NextBind]_vars

-----------------------------------------------------------------------------
(* Properties of escapeQueryWithParameters *)

\* a placeholder starts at position i: a colon with a key character after it
\* (a colon is no key character, so no placeholder starts inside another)
TokenAt(sql, i) == i < Len(sql) /\ sql[i] = ":" /\ IsKeyChar(sql[i + 1])

\* the key characters that follow the colon at position i
TokenRun(sql, i) ==
    LET j == CHOOSE e \in (i + 1)..Len(sql) :
                 /\ \A k \in (i + 1)..e : IsKeyChar(sql[k])
                 /\ (e = Len(sql) \/ ~IsKeyChar(sql[e + 1]))
    IN SubSeq(sql, i + 1, j)

IsSpread(run) == Len(run) > 3 /\ run[1] = "." /\ run[2] = "." /\ run[3] = "."

TokenKey(sql, i) ==
    LET run == TokenRun(sql, i) IN IF IsSpread(run) THEN SubSeq(run, 4, Len(run)) ELSE run

\* the placeholder at position i names a parameter that is given
NamesParameter(sql, i, parameters) ==
    /\ TokenAt(sql, i)
    /\ parameters.t = "object"
    /\ \E n \in 1..Len(parameters.entries) : parameters.entries[n].key = TokenKey(sql, i)

\* the values the placeholder at position i binds
BoundAt(sql, i, parameters) ==
    IF ~NamesParameter(sql, i, parameters) THEN <<>>
    ELSE LET value == Property(parameters, TokenKey(sql, i))
         IN IF IsSpread(TokenRun(sql, i)) THEN value.v
            ELSE IF value.t = "function" THEN <<>>
            ELSE <<value>>

\* the values bound by the placeholders from position i on, left to right
RECURSIVE BoundFrom(_, _, _)
BoundFrom(sql, i, parameters) ==
    IF i > Len(sql) THEN <<>>
    ELSE BoundAt(sql, i, parameters) \o BoundFrom(sql, i + 1, parameters)

CountOf(c, text) == Cardinality({i \in 1..Len(text) : text[i] = c})

SqlInListBound ==
    <<"W", "H", "E", "R", "E", " ", "a", " ", "=", " ", "?", " ", "A", "N", "D", " ", "b", " ", "I", "N", " ", "(",
      "?", ",", " ", "?", ",", " ", "?", ")">>

\* C19: the value list of a call that returns is the native values in key
\* order followed by the values of the placeholders that name a parameter,
\* left to right: one for a plain placeholder, the elements for a spread one,
\* none for a function; the statement gains one "?" per bound value (no
\* function of the model returns a "?"). "WHERE a = :x AND b IN (:...y)" with
\* {x: 5, y: [1,2,3]} gives [5,1,2,3] and four markers.
C19_BoundValuesInOrder ==
    (call.t = "escapeQueryWithParameters" /\ callRet.t = "return") =>
        /\ callRet.value.values
               = ObjectValues(call.nativeParameters)
                     \o BoundFrom(call.sql, 1, call.parameters)
        /\ CountOf("?", callRet.value.sql)
               = CountOf("?", call.sql) + Len(callRet.value.values)
                     - Len(ObjectValues(call.nativeParameters))
        /\ (/\ call.sql = SqlInList
            /\ call.parameters
                   = Obj(<<Entry(KeyX, Num(5)), Entry(KeyY, Arr(<<Num(1), Num(2), Num(3)>>))>>)
            /\ call.nativeParameters = Obj(<<>>))
           => callRet.value = [sql |-> SqlInListBound,
                               values |-> <<Num(5), Num(1), Num(2), Num(3)>>]

C19_Witness ==
    /\ call.t = "escapeQueryWithParameters"
    /\ call.sql = SqlInList
    /\ callRet.t = "return"
    /\ callRet.value.sql = SqlInListBound
    /\ callRet.value.values = <<Num(5), Num(1), Num(2), Num(3)>>

\* C20: when no placeholder names a given parameter (the parameters are
\* absent or empty, or no key matches) the call returns the sql as given with
\* the native values only; in every call that returns, each placeholder that
\* names no parameter is still in the output.
C20_UnknownLeftAlone ==
    (call.t = "escapeQueryWithParameters" /\ callRet # NoCall) =>
        /\ (\A i \in 1..Len(call.sql) : ~NamesParameter(call.sql, i, call.parameters))
               => callRet = Returned([sql |-> call.sql,
                                      values |-> ObjectValues(call.nativeParameters)])
        /\ callRet.t = "return" =>
               \A i \in 1..Len(call.sql) :
                   (TokenAt(call.sql, i) /\ ~NamesParameter(call.sql, i, call.parameters))
                       => Contains(callRet.value.sql, <<":">> \o TokenRun(call.sql, i))

C20_Witness ==
    /\ call.t = "escapeQueryWithParameters"
    /\ call.sql = SqlTimeLiteral
    /\ call.parameters = Obj(<<Entry(KeyY, Num(7))>>)
    /\ callRet.t = "return"
    /\ callRet.value.sql = SqlTimeLiteral

-----------------------------------------------------------------------------
(* PlanetScaleDriver.createGeneratedMap *)

InsertIdKey == <<"i", "n", "s", "e", "r", "t", "I", "d">>

\* object[key]: undefined when the object has no such key
Get(object, key) ==
    IF HasOwnProperty(object, key) THEN Property(object, key) ELSE Undefined

\* object[key] = value: an existing key keeps its place, a new key comes last
SetProperty(object, key, value) ==
    IF HasOwnProperty(object, key)
    THEN Obj([n \in 1..Len(object.entries) |->
                 IF object.entries[n].key = key THEN Entry(key, value)
                 ELSE object.entries[n]])
    ELSE Obj(Append(object.entries, Entry(key, value)))

IsObject(x) == x.t = "object" /\ "entries" \in DOMAIN x

\* OrmUtils.mergeDeep(target, source): every key of the source is assigned to
\* the target, an object value being merged into the target's object
RECURSIVE mergeDeep(_, _)
RECURSIVE MergeEntries(_, _, _)
MergeEntries(target, entries, n) ==
    IF n > Len(entries) THEN target
    ELSE LET key == entries[n].key
             value == entries[n].value
             into == IF IsObject(Get(target, key)) THEN Get(target, key) ELSE Obj(<<>>)
         IN MergeEntries(SetProperty(target, key,
                                     IF IsObject(value) THEN mergeDeep(into, value)
                                     ELSE value),
                         entries, n + 1)

mergeDeep(target, source) == MergeEntries(target, source.entries, 1)

\* column.createValueMap(value): the value under the column's property name,
\* inside the embedded object when the column belongs to one
createValueMap(column, value) ==
    IF column.embedded = <<>> THEN Obj(<<Entry(column.propertyName, value)>>)
    ELSE Obj(<<Entry(column.embedded, Obj(<<Entry(column.propertyName, value)>>))>>)

\* metadata.findColumnWithDatabaseName(key)
HasColumnWithDatabaseName(metadata, key) ==
    \E n \in 1..Len(metadata.columns) : metadata.columns[n].databaseName = key

findColumnWithDatabaseName(metadata, key) ==
    metadata.columns[CHOOSE n \in 1..Len(metadata.columns) :
                         metadata.columns[n].databaseName = key]

\* metadata.generatedColumns
IsGeneratedColumn(column) == column.isGenerated

generatedColumns(metadata) == SelectSeq(metadata.columns, IsGeneratedColumn)

\* the reduce over Object.keys(insertResult) when there is no insertId
RECURSIVE ReturnedColumnsMap(_, _, _, _)
ReturnedColumnsMap(metadata, insertResult, n, map) ==
    IF n > Len(insertResult.entries) THEN map
    ELSE LET key == insertResult.entries[n].key
         IN ReturnedColumnsMap(metadata, insertResult, n + 1,
                IF HasColumnWithDatabaseName(metadata, key)
                THEN mergeDeep(map, createValueMap(findColumnWithDatabaseName(metadata, key),
                                                   insertResult.entries[n].value))
                ELSE map)

\* a variant that gives every row of the batch the first row's id
IncrementValueFirstRow(insertId, entityIndex) == parseInt(insertId)

\* parseInt(insertResult.insertId) + entityIndex
IncrementValue(insertId, entityIndex) ==
    IF IsNaNValue(parseInt(insertId)) THEN NaN
    ELSE Num(parseInt(insertId).v + entityIndex)

\* the reduce over metadata.generatedColumns when there is an insertId
RECURSIVE GeneratedColumnsMap(_, _, _, _, _)
GeneratedColumnsMap(columns, insertResult, entityIndex, n, map) ==
    IF n > Len(columns) THEN map
    ELSE LET insertId == Get(insertResult, InsertIdKey)
             value == IF columns[n].generationStrategy = "increment" /\ Truthy(insertId)
                      THEN IncrementValue(insertId, entityIndex)
                      ELSE Undefined
         IN GeneratedColumnsMap(columns, insertResult, entityIndex, n + 1,
                                mergeDeep(map, createValueMap(columns[n], value)))

createGeneratedMap(metadata, insertResult, entityIndex) ==
    IF ~Truthy(insertResult) THEN Undefined
    ELSE IF Get(insertResult, InsertIdKey).t = "undefined"
    THEN ReturnedColumnsMap(metadata, insertResult, 1, Obj(<<>>))
    ELSE LET generatedMap == GeneratedColumnsMap(generatedColumns(metadata), insertResult,
                                                 entityIndex, 1, Obj(<<>>))
         IN IF Len(generatedMap.entries) > 0 THEN generatedMap ELSE Undefined

(* The calls of createGeneratedMap the model makes *)

MaxEntityIndex == 2

KeyId == <<"i", "d">>
KeyUid == <<"u", "i", "d">>
KeyName == <<"n">>
KeySeq == <<"s", "e", "q">>
KeyCounters == <<"c">>
KeyCountersSeq == <<"c", "S", "e", "q">>
KeyOther == <<"o">>

GeneratedColumn(propertyName, databaseName, embedded, isGenerated, generationStrategy) ==
    [propertyName |-> propertyName, databaseName |-> databaseName, embedded |-> embedded,
     isGenerated |-> isGenerated, generationStrategy |-> generationStrategy]

EntityColumns ==
    <<GeneratedColumn(KeyId, KeyId, <<>>, TRUE, "increment"),
      GeneratedColumn(KeyUid, KeyUid, <<>>, TRUE, "uuid"),
      GeneratedColumn(KeyName, KeyName, <<>>, FALSE, "undefined"),
      GeneratedColumn(KeySeq, KeyCountersSeq, KeyCounters, TRUE, "increment")>>

\* the entities: every selection of the columns, in their order

EntityMetadatas ==
    {[columns |-> [n \in 1..Cardinality(S) |->
                      EntityColumns[CHOOSE k \in S : Cardinality({j \in S : j < k}) = n - 1]]] :
        S \in SUBSET (1..Len(EntityColumns))}

InsertResults ==
    {Undefined, Null, Obj(<<>>),
     Obj(<<Entry(InsertIdKey, Num(100))>>),
     Obj(<<Entry(InsertIdKey, Str(<<"1", "0", "0">>))>>),
     Obj(<<Entry(InsertIdKey, Num(0))>>),
     Obj(<<Entry(InsertIdKey, Null)>>),
     Obj(<<Entry(KeyOther, Num(1))>>),
     Obj(<<Entry(KeyId, Num(7)), Entry(KeyOther, Num(1))>>),
     Obj(<<Entry(KeyCountersSeq, Num(3)), Entry(KeyUid, Str(<<"u">>))>>)}

CreateGeneratedMapCalls ==
    {[t |-> "createGeneratedMap", metadata |-> metadata, insertResult |-> insertResult,
      entityIndex |-> entityIndex] :
        metadata \in EntityMetadatas, insertResult \in InsertResults,
        entityIndex \in 0..MaxEntityIndex}

InitGenerated ==
    /\ numberUtils = "part_000"
    /\ bit = NoCall
    /\ bitRet = NoCall
    /\ MarshalIdle
    /\ DiffIdle
    /\ call \in CreateGeneratedMapCalls
    /\ callRet = NoCall
    /\ DriversIdle

CallCreateGeneratedMap ==
    /\ call.t = "createGeneratedMap"
    /\ callRet = NoCall
    /\ callRet' = Returned(createGeneratedMap(call.metadata, call.insertResult, call.entityIndex))
    /\ UNCHANGED <<call, numberUtils, instance, driverVars, serverlessVars, mysqlVars, bitVars, marshalVars, diffVars>>

NextGenerated == CallCreateGeneratedMap

SpecGenerated == InitGenerated /\ [][NextGenerated]_vars

-----------------------------------------------------------------------------
(* Properties of createGeneratedMap *)

\* the map has an entry for the column, at the column's property path
HasValueOf(map, column) ==
    /\ IsObject(map)
    /\ IF column.embedded = <<>> THEN HasOwnProperty(map, column.propertyName)
       ELSE /\ HasOwnProperty(map, column.embedded)
            /\ IsObject(Property(map, column.embedded))
            /\ HasOwnProperty(Property(map, column.embedded), column.propertyName)

ValueOf(map, column) ==
    IF column.embedded = <<>> THEN Property(map, column.propertyName)
    ELSE Property(Property(map, column.embedded), column.propertyName)

\* the insertId as a number: the driver reports it as a number or as its decimal text
InsertIdNumber(insertId) == IF insertId.t = "number" THEN insertId.v ELSE TextNat(insertId.v)

HasInsertId(insertResult) ==
    IsObject(insertResult) /\ Get(insertResult, InsertIdKey).t # "undefined"

IsIncrementColumn(column) == column.isGenerated /\ column.generationStrategy = "increment"

\* C21: with a truthy insertId every increment column of the entity gets the
\* value insertId + entityIndex, so the rows at indices 0, 1, ... of one batch
\* get consecutive ids; insertId 100 gives 100 at index 0 and 101 at index 1.
C21_ConsecutiveIds ==
    (/\ call.t = "createGeneratedMap"
     /\ callRet.t = "return"
     /\ HasInsertId(call.insertResult)
     /\ Truthy(Get(call.insertResult, InsertIdKey))) =>
        \A n \in 1..Len(call.metadata.columns) :
            LET column == call.metadata.columns[n]
            IN IsIncrementColumn(column) =>
                   /\ HasValueOf(callRet.value, column)
                   /\ ValueOf(callRet.value, column)
                          = Num(InsertIdNumber(Get(call.insertResult, InsertIdKey))
                                    + call.entityIndex)
                   /\ (InsertIdNumber(Get(call.insertResult, InsertIdKey)) = 100
                       /\ call.entityIndex \in {0, 1})
                          => ValueOf(callRet.value, column).v = 100 + call.entityIndex

C21_Witness ==
    /\ call.t = "createGeneratedMap"
    /\ call.insertResult = Obj(<<Entry(InsertIdKey, Num(100))>>)
    /\ call.entityIndex = 1
    /\ Len(call.metadata.columns) = 4
    /\ callRet.t = "return"
    /\ IsObject(callRet.value)
    /\ Get(callRet.value, KeyId) = Num(101)

\* C22: createGeneratedMap never returns an empty map; it returns undefined
\* when the insertResult is absent, when the insertResult has no insertId and
\* none of its keys is a column of the entity, and when it has an insertId but
\* the entity has no generated column.
C22_AbsentNeverEmpty ==
    (call.t = "createGeneratedMap" /\ callRet.t = "return") =>
        /\ ~(IsObject(callRet.value) /\ callRet.value.entries = <<>>)
        /\ ~Truthy(call.insertResult) => callRet.value.t = "undefined"
        /\ (/\ IsObject(call.insertResult)
            /\ ~HasInsertId(call.insertResult)
            /\ \A n \in 1..Len(call.insertResult.entries) :
                   ~HasColumnWithDatabaseName(call.metadata, call.insertResult.entries[n].key))
               => callRet.value.t = "undefined"
        /\ (HasInsertId(call.insertResult) /\ generatedColumns(call.metadata) = <<>>)
               => callRet.value.t = "undefined"

\* C23: with an insertId in the insertResult the returned map has an entry
\* only for a generated column that got a value: an increment column, and
\* only when the insertId is truthy.
C23_OnlyGeneratedValues ==
    (/\ call.t = "createGeneratedMap"
     /\ callRet.t = "return"
     /\ HasInsertId(call.insertResult)) =>
        \A n \in 1..Len(call.metadata.columns) :
            HasValueOf(callRet.value, call.metadata.columns[n])
                => /\ IsIncrementColumn(call.metadata.columns[n])
                   /\ Truthy(Get(call.insertResult, InsertIdKey))

-----------------------------------------------------------------------------
(* PlanetScaleDriver: connect, buildTableName, parseTableName *)

\* a || b
Or(a, b) == IF Truthy(a) THEN a ELSE b

\* buildTableName(tableName, schema, database): the schema is not joined
buildTableName(tableName, schema, databaseName) ==
    IF Truthy(databaseName) THEN Str(Join(<<databaseName.v, tableName.v>>, <<".">>))
    ELSE Str(Join(<<tableName.v>>, <<".">>))

\* InstanceChecker
IsKind(target, kind) == "kind" \in DOMAIN target /\ target.kind = kind

\* parseTableName of a plain string
ParseString(driverDatabase, target) ==
    LET parts == Split(target.v, ".")
    IN [database |-> Or(IF Len(parts) > 1 THEN Str(parts[1]) ELSE Undefined, driverDatabase),
        schema |-> Undefined,
        tableName |-> IF Len(parts) > 1 THEN Str(parts[2]) ELSE Str(parts[1])]

\* a variant that prefers the driver's database to the descriptor's
ExplicitOrParsedDefaultFirst(explicit, parsed, default) == Or(default, Or(explicit, parsed))

\* target.database || parsed.database || driverDatabase
ExplicitOrParsed(explicit, parsed, default) == Or(explicit, Or(parsed, default))

parseTableName(driverDatabase, target) ==
    IF IsKind(target, "Table") \/ IsKind(target, "View")
    THEN LET parsed == ParseString(driverDatabase, target.name)
         IN [database |-> ExplicitOrParsed(target.database, parsed.database, driverDatabase),
             schema |-> ExplicitOrParsed(target.schema, parsed.schema, Undefined),
             tableName |-> parsed.tableName]
    ELSE IF IsKind(target, "TableForeignKey")
    THEN LET parsed == ParseString(driverDatabase, target.referencedTableName)
         IN [database |-> ExplicitOrParsed(target.referencedDatabase, parsed.database,
                                           driverDatabase),
             schema |-> ExplicitOrParsed(target.referencedSchema, parsed.schema, Undefined),
             tableName |-> parsed.tableName]
    ELSE IF IsKind(target, "EntityMetadata")
    THEN [database |-> Or(target.database, driverDatabase),
          schema |-> Or(target.schema, Undefined),
          tableName |-> target.tableName]
    ELSE ParseString(driverDatabase, target)

(* The base driver as a state machine: it is constructed with or without a *)
(* database, connect asks the server for the current database when there   *)
(* is none, and table names are built and parsed at any time.              *)

MaxNameLen == 3

Names == SeqsUpTo({"a", "b", "."}, MaxNameLen)

DotFree(name) == \A n \in 1..Len(name) : name[n] # "."

\* the names the descriptors carry
DescriptorNames == {<<"a">>, <<"b", ".", "a">>, <<".", "a">>, <<"a", ".", "b", ".", "a">>}

\* the databases and schemas a descriptor or a caller names: none, empty, or a name
ExplicitDatabases == {Undefined, Str(<<>>), Str(<<"x">>)}

ExplicitSchemas == {Undefined, Str(<<"s">>)}

\* what DriverUtils.buildDriverOptions(options).database gives the constructor
OptionsDatabases == {Undefined, Str(<<"o">>)}

\* what the server answers to getCurrentDatabase
CurrentDatabases == {Str(<<"c">>)}

Targets ==
    {Str(name) : name \in Names}
    \cup {[kind |-> kind, name |-> Str(name), database |-> db, schema |-> schema] :
            kind \in {"Table", "View"}, name \in DescriptorNames,
            db \in ExplicitDatabases, schema \in ExplicitSchemas}
    \cup {[kind |-> "TableForeignKey", referencedTableName |-> Str(name),
           referencedDatabase |-> db, referencedSchema |-> schema] :
            name \in DescriptorNames, db \in ExplicitDatabases, schema \in ExplicitSchemas}
    \cup {[kind |-> "EntityMetadata", tableName |-> Str(name), database |-> db,
           schema |-> schema] :
            name \in {n \in Names : DotFree(n)}, db \in ExplicitDatabases,
            schema \in ExplicitSchemas}

InitResolve ==
    /\ numberUtils = "part_000"
    /\ bit = NoCall
    /\ bitRet = NoCall
    /\ MarshalIdle
    /\ DiffIdle
    /\ CallIdle
    /\ database \in OptionsDatabases
    /\ prev = NoCall
    /\ ServerlessIdle
    /\ CommandIdle
    /\ MysqlIdle

\* connect(): without a database the driver takes the server's current one
Connect ==
    /\ \E current \in CurrentDatabases :
           database' = IF Truthy(database) THEN database ELSE current
    /\ UNCHANGED <<callVars, prev, numberUtils, instance, serverlessVars, mysqlVars,
                   bitVars, marshalVars, diffVars>>

\* driverDatabase is what the call reads from this.database
CallParseTableName ==
    /\ call = NoCall
    /\ \E target \in Targets :
           /\ call' = [t |-> "parseTableName", target |-> target, driverDatabase |-> database]
           /\ callRet' = Returned(parseTableName(database, target))
    /\ UNCHANGED <<numberUtils, instance, driverVars, serverlessVars, mysqlVars,
                   bitVars, marshalVars, diffVars>>

CallBuildTableName ==
    /\ call = NoCall
    /\ \E name \in Names, schema \in ExplicitSchemas, db \in ExplicitDatabases :
           /\ DotFree(name)
           /\ call' = [t |-> "buildTableName", tableName |-> Str(name), schema |-> schema,
                       database |-> db]
           /\ callRet' = Returned(buildTableName(Str(name), schema, db))
    /\ UNCHANGED <<numberUtils, instance, driverVars, serverlessVars, mysqlVars,
                   bitVars, marshalVars, diffVars>>

\* the name that buildTableName gave is parsed
ParseBuiltName ==
    /\ call.t = "buildTableName"
    /\ prev = NoCall
    /\ prev' = [call |-> call, ret |-> callRet]
    /\ call' = [t |-> "parseTableName", target |-> callRet.value, driverDatabase |-> database]
    /\ callRet' = Returned(parseTableName(database, callRet.value))
    /\ UNCHANGED <<database, numberUtils, instance, serverlessVars, mysqlVars,
                   bitVars, marshalVars, diffVars>>

\* the same target is parsed once more
ParseTableNameAgain ==
    /\ call.t = "parseTableName"
    /\ prev = NoCall
    /\ prev' = [call |-> call, ret |-> callRet]
    /\ call' = [call EXCEPT !.driverDatabase = database]
    /\ callRet' = Returned(parseTableName(database, call.target))
    /\ UNCHANGED <<database, numberUtils, instance, serverlessVars, mysqlVars,
                   bitVars, marshalVars, diffVars>>

BuildTableNameAgain ==
    /\ call.t = "buildTableName"
    /\ prev = NoCall
    /\ prev' = [call |-> call, ret |-> callRet]
    /\ callRet' = Returned(buildTableName(call.tableName, call.schema, call.database))
    /\ UNCHANGED <<call, database, numberUtils, instance, serverlessVars, mysqlVars,
                   bitVars, marshalVars, diffVars>>

NextResolve ==
    \/ Connect
    \/ CallParseTableName
    \/ CallBuildTableName
    \/ ParseBuiltName
    \/ ParseTableNameAgain
    \/ BuildTableNameAgain

SpecResolve == InitResolve /\ [][NextResolve]_vars

-----------------------------------------------------------------------------
(* Properties of parseTableName and buildTableName *)

\* the name a target carries, and the database it names itself
TargetName(target) ==
    IF IsKind(target, "Table") \/ IsKind(target, "View") THEN target.name
    ELSE IF IsKind(target, "TableForeignKey") THEN target.referencedTableName
    ELSE IF IsKind(target, "EntityMetadata") THEN target.tableName
    ELSE target

TargetDatabase(target) ==
    IF IsKind(target, "Table") \/ IsKind(target, "View") THEN target.database
    ELSE IF IsKind(target, "TableForeignKey") THEN target.referencedDatabase
    ELSE IF IsKind(target, "EntityMetadata") THEN target.database
    ELSE Undefined

\* the positions of the dots of a name
Dots(name) == {n \in 1..Len(name) : name[n] = "."}

FirstDot(name) == CHOOSE n \in Dots(name) : \A m \in Dots(name) : n <= m

\* the segment of a dotted name before its first dot, and the one after it
DatabaseSegment(name) ==
    IF Dots(name) = {} THEN Undefined ELSE Str(SubSeq(name, 1, FirstDot(name) - 1))

TableSegment(name) ==
    IF Dots(name) = {} THEN Str(name)
    ELSE LET rest == SubSeq(name, FirstDot(name) + 1, Len(name))
         IN IF Dots(rest) = {} THEN Str(rest) ELSE Str(SubSeq(rest, 1, FirstDot(rest) - 1))

C25_SameArgumentsSameResult ==
    (prev # NoCall /\ prev.call.t = call.t) =>
        /\ call.t = "parseTableName" /\ prev.call.target = call.target
               => callRet = prev.ret
        /\ call.t = "buildTableName" => callRet = prev.ret

-----------------------------------------------------------------------------
(* PlanetScaleServerlessDriver: the connection pool, and the replication *)
(* connections it inherits from PlanetScaleDriver                        *)

MaxConnections == 3

TypeORMError(message) == [name |-> "TypeORMError", message |-> message]

\* the message of the replication errors, sentence by sentence
ReplicationMessage ==
    <<"PlanetScale does not support replication.", "Call connect() instead.">>

\* a variant that hands out the default connection, as the doc comment says
ReplicationDefaultConnection == Returned(1)

\* PlanetScaleDriver.obtainMasterConnection
obtainMasterConnection == Thrown(TypeORMError(ReplicationMessage))

\* PlanetScaleDriver.obtainSlaveConnection
obtainSlaveConnection == Thrown(TypeORMError(ReplicationMessage))

\* a variant of pop that leaves the connection in the pool
PoolAfterPeek(connections) == connections

\* this.connectionPool after this.connectionPool.pop()
PoolAfterPop(connections) == SubSeq(connections, 1, Len(connections) - 1)

InitServerless ==
    /\ numberUtils = "part_000"
    /\ bit = NoCall
    /\ bitRet = NoCall
    /\ MarshalIdle
    /\ DiffIdle
    /\ CallIdle
    /\ database \in OptionsDatabases
    /\ prev = NoCall
    /\ ServerlessIdle
    /\ CommandIdle
    /\ MysqlIdle

\* obtainConnection(), called by a query runner that holds no connection
ObtainConnection(r) ==
    /\ held[r] = NoConnection
    /\ IF connectionPool # <<>>
       THEN /\ held' = [held EXCEPT ![r] = connectionPool[Len(connectionPool)]]
            /\ connectionPool' = PoolAfterPop(connectionPool)
            /\ UNCHANGED created
       ELSE /\ created < MaxConnections
            /\ created' = created + 1
            /\ held' = [held EXCEPT ![r] = created + 1]
            /\ UNCHANGED connectionPool
    /\ UNCHANGED <<closed, pc, callVars, numberUtils, instance, driverVars, mysqlVars,
                   bitVars, marshalVars, diffVars>>

\* releaseConnection(connection), called by the query runner that holds it
ReleaseConnection(r) ==
    /\ held[r] # NoConnection
    /\ connectionPool' = Append(connectionPool, held[r])
    /\ held' = [held EXCEPT ![r] = NoConnection]
    /\ UNCHANGED <<created, closed, pc, callVars, numberUtils, instance, driverVars,
                   mysqlVars, bitVars, marshalVars, diffVars>>

\* disconnect() up to its await of super.disconnect()
DisconnectCall ==
    /\ pc = "idle"
    /\ pc' = "await"
    /\ UNCHANGED <<connectionPool, held, created, closed, callVars, numberUtils, instance,
                   driverVars, mysqlVars, bitVars, marshalVars, diffVars>>

\* disconnect() after the await: this.connectionPool.length = 0
DisconnectResume ==
    /\ pc = "await"
    /\ connectionPool' = <<>>
    /\ closed' = 1..created
    /\ pc' = "idle"
    /\ UNCHANGED <<held, created, callVars, numberUtils, instance, driverVars, mysqlVars,
                   bitVars, marshalVars, diffVars>>

ObtainMasterConnection ==
    /\ call' = [t |-> "obtainMasterConnection"]
    /\ callRet' = obtainMasterConnection
    /\ UNCHANGED <<numberUtils, instance, driverVars, serverlessVars, mysqlVars,
                   bitVars, marshalVars, diffVars>>

ObtainSlaveConnection ==
    /\ call' = [t |-> "obtainSlaveConnection"]
    /\ callRet' = obtainSlaveConnection
    /\ UNCHANGED <<numberUtils, instance, driverVars, serverlessVars, mysqlVars,
                   bitVars, marshalVars, diffVars>>

NextServerless ==
    \/ Connect
    \/ \E r \in Runners : ObtainConnection(r)
    \/ \E r \in Runners : ReleaseConnection(r)
    \/ DisconnectCall
    \/ DisconnectResume
    \/ ObtainMasterConnection
    \/ ObtainSlaveConnection

SpecServerless == InitServerless /\ [][NextServerless]_vars

-----------------------------------------------------------------------------
(* Properties of the drivers' connections *)

C27_PoolExclusive ==
    /\ [](/\ \A r1, r2 \in Runners :
                 (r1 # r2 /\ held[r1] # NoConnection) => held[r1] # held[r2]
          /\ \A r \in Runners, n \in 1..Len(connectionPool) : held[r] # connectionPool[n]
          /\ \A n, m \in 1..Len(connectionPool) :
                 n # m => connectionPool[n] # connectionPool[m])
    /\ [][created' # created => connectionPool = <<>>]_vars

C27_Witness ==
    /\ held["r1"] = 2
    /\ held["r2"] = 1
    /\ closed = {}

\* C28: a connection made before a completed disconnect is never handed out
\* by a later obtainConnection.
C28_ClosedNeverObtained ==
    [][\A r \in Runners :
           (held[r] = NoConnection /\ held'[r] # NoConnection) => held'[r] \notin closed]_vars

-----------------------------------------------------------------------------
(* CommandDataSource: the DataSource the CLI commands share *)

MaxDataSources == 4

DataSource(n) == [t |-> "DataSource", id |-> n]

DataSources == {DataSource(n) : n \in 1..MaxDataSources}

Error(message) == [name |-> "Error", message |-> message]

\* the messages of the two errors, sentence by sentence
NotInitializedMessage == <<"DataSource not initialized!">>

AlreadyInitializedMessage ==
    <<"DataSource already initialized!",
      "Only one datasource can be used per command session.">>

\* static get instance()
GetInstance(stored) ==
    IF ~Truthy(stored) THEN Thrown(Error(NotInitializedMessage)) ELSE Returned(stored)

\* a variant of the setter that replaces the stored DataSource
SetInstanceReplacing(stored, dataSource) ==
    [ret |-> Returned(Undefined), instance |-> dataSource]

\* static set instance(dataSource): what the assignment does and what is stored after it
SetInstance(stored, dataSource) ==
    IF Truthy(stored) THEN [ret |-> Thrown(Error(AlreadyInitializedMessage)), instance |-> stored]
    ELSE [ret |-> Returned(Undefined), instance |-> dataSource]

InitCommand ==
    /\ numberUtils = "part_000"
    /\ bit = NoCall
    /\ bitRet = NoCall
    /\ MarshalIdle
    /\ DiffIdle
    /\ CallIdle
    /\ DriversIdle

\* the access before this one, once there is one
Earlier == IF call = NoCall THEN NoCall ELSE [call |-> call, ret |-> callRet]

ReadInstance ==
    /\ call' = [t |-> "get"]
    /\ callRet' = GetInstance(instance)
    /\ prev' = Earlier
    /\ UNCHANGED <<instance, database, numberUtils, serverlessVars, mysqlVars,
                   bitVars, marshalVars, diffVars>>

WriteInstance ==
    /\ \E dataSource \in DataSources :
           /\ call' = [t |-> "set", dataSource |-> dataSource]
           /\ callRet' = SetInstance(instance, dataSource).ret
           /\ instance' = SetInstance(instance, dataSource).instance
    /\ prev' = Earlier
    /\ UNCHANGED <<database, numberUtils, serverlessVars, mysqlVars,
                   bitVars, marshalVars, diffVars>>

NextCommand == ReadInstance \/ WriteInstance

SpecCommand == InitCommand /\ [][NextCommand]_vars

\* C29: a read before any set throws "DataSource not initialized!"; once a
\* DataSource is stored it stays the stored one, every later set throws
\* "DataSource already initialized!" and every later read returns it.
C29_WriteOnce ==
    /\ [](/\ (call.t = "get" /\ instance.t = "undefined")
                 => callRet = Thrown(Error(<<"DataSource not initialized!">>))
          /\ (call.t = "get" /\ instance.t # "undefined") => callRet = Returned(instance)
          /\ (call.t = "set" /\ callRet.t = "return") => instance = call.dataSource
          /\ (call.t = "set" /\ callRet.t = "throw")
                 => /\ callRet.error.name = "Error"
                    /\ callRet.error.message[1] = "DataSource already initialized!")
    /\ [][instance.t # "undefined" =>
              /\ instance' = instance
              /\ call'.t = "set" => callRet'.t = "throw"
              /\ call'.t = "get" => callRet' = Returned(instance)]_vars

C29_Witness ==
    /\ instance = DataSource(1)
    /\ call = [t |-> "set", dataSource |-> DataSource(2)]
    /\ callRet.t = "throw"
    /\ prev # NoCall
    /\ prev.call.t = "get"
    /\ prev.ret = Returned(DataSource(1))

-----------------------------------------------------------------------------
(* PlanetScaleMysqlDriver: connect, disconnect and the pool *)

MaxPools == 2

ConnectionIsNotSetError == [name |-> "ConnectionIsNotSetError", message |-> <<"mysql">>]

NotEstablishedMessage == <<"Connection is not established with mysql database">>

\* an error the mysql package reports: from getConnection, end or a query
MysqlError(from) == [name |-> "Error", message |-> <<from>>]

IsOpen(p) == p # 0 /\ pools[p] = "open"

InitMysql ==
    /\ numberUtils = "part_000"
    /\ bit = NoCall
    /\ bitRet = NoCall
    /\ MarshalIdle
    /\ DiffIdle
    /\ CallIdle
    /\ database \in OptionsDatabases
    /\ prev = NoCall
    /\ ServerlessIdle
    /\ CommandIdle
    /\ MysqlIdle

\* connect() up to the getConnection of createPool: mysql.createPool has made the pool
MysqlConnect ==
    /\ connectPc = "idle"
    /\ Len(pools) < MaxPools
    /\ pools' = Append(pools, "open")
    /\ connectPool' = Len(pools) + 1
    /\ connectPc' = "createPool"
    /\ UNCHANGED <<pool, endPool, connected, callVars, numberUtils, instance, driverVars,
                   serverlessVars, bitVars, marshalVars, diffVars>>

\* the first connection works: createPool resolves and connect assigns this.pool
FirstConnectionWorks ==
    /\ connectPc = "createPool"
    /\ IsOpen(connectPool)
    /\ pool' = connectPool
    /\ connectPc' = IF Truthy(database) THEN "version" ELSE "database"
    /\ UNCHANGED <<pools, connectPool, endPool, connected, callVars, numberUtils, instance,
                   driverVars, serverlessVars, bitVars, marshalVars, diffVars>>

\* the first connection fails: createPool ends the pool and connect rejects
FirstConnectionFails ==
    /\ connectPc = "createPool"
    /\ pools' = [pools EXCEPT ![connectPool] = "ended"]
    /\ connectPc' = "idle"
    /\ call' = [t |-> "connect"]
    /\ callRet' = Thrown(MysqlError("getConnection"))
    /\ UNCHANGED <<pool, connectPool, endPool, connected, numberUtils, instance, driverVars,
                   serverlessVars, bitVars, marshalVars, diffVars>>

\* this.database = await queryRunner.getCurrentDatabase()
CurrentDatabaseWorks ==
    /\ connectPc = "database"
    /\ IsOpen(pool)
    /\ \E current \in CurrentDatabases : database' = current
    /\ connectPc' = "version"
    /\ UNCHANGED <<prev, pool, pools, connectPool, endPool, connected, callVars, numberUtils, instance, serverlessVars,
                   bitVars, marshalVars, diffVars>>

\* a query of connect fails: connect rejects where it stands
ConnectQueryFails ==
    /\ connectPc \in {"database", "version"}
    /\ connectPc' = "idle"
    /\ call' = [t |-> "connect"]
    /\ callRet' = Thrown(MysqlError("query"))
    /\ UNCHANGED <<pool, pools, connectPool, endPool, connected, numberUtils, instance, driverVars, serverlessVars,
                   bitVars, marshalVars, diffVars>>

\* the version query works: connect resolves
VersionWorks ==
    /\ connectPc = "version"
    /\ IsOpen(pool)
    /\ connectPc' = "idle"
    /\ connected' = TRUE
    /\ call' = [t |-> "connect"]
    /\ callRet' = Returned(Undefined)
    /\ UNCHANGED <<pool, pools, connectPool, endPool, numberUtils, instance, driverVars,
                   serverlessVars, bitVars, marshalVars, diffVars>>

\* disconnect(): rejects without a pool, else asks the pool to end
MysqlDisconnect ==
    /\ endPool = 0
    /\ IF pool = 0
       THEN /\ call' = [t |-> "disconnect", pool |-> pool]
            /\ callRet' = Thrown(ConnectionIsNotSetError)
            /\ UNCHANGED endPool
       ELSE /\ endPool' = pool
            /\ UNCHANGED callVars
    /\ UNCHANGED <<pool, pools, connectPc, connectPool, connected, numberUtils, instance,
                   driverVars, serverlessVars, bitVars, marshalVars, diffVars>>

\* the callback of pool.end without an error: the pool is unset, disconnect resolves
PoolEndWorks ==
    /\ endPool # 0
    /\ pools' = [pools EXCEPT ![endPool] = "ended"]
    /\ pool' = 0
    /\ endPool' = 0
    /\ connected' = FALSE
    /\ call' = [t |-> "disconnect", pool |-> endPool]
    /\ callRet' = Returned(Undefined)
    /\ UNCHANGED <<connectPc, connectPool, numberUtils, instance, driverVars,
                   serverlessVars, bitVars, marshalVars, diffVars>>

\* the callback of pool.end with an error: disconnect rejects
PoolEndFails ==
    /\ endPool # 0
    /\ endPool' = 0
    /\ call' = [t |-> "disconnect", pool |-> endPool]
    /\ callRet' = Thrown(MysqlError("end"))
    /\ UNCHANGED <<pool, pools, connectPc, connectPool, connected, numberUtils, instance,
                   driverVars, serverlessVars, bitVars, marshalVars, diffVars>>

\* obtainMasterConnection(), and obtainSlaveConnection() which calls it
MysqlObtainConnection ==
    /\ \E method \in {"obtainMasterConnection", "obtainSlaveConnection"} :
           call' = [t |-> method, pool |-> pool]
    /\ IF pool # 0
       THEN \/ IsOpen(pool) /\ callRet' = Returned([connectionOf |-> pool])
            \/ callRet' = Thrown(MysqlError("getConnection"))
       ELSE callRet' = Thrown(TypeORMError(NotEstablishedMessage))
    /\ UNCHANGED <<mysqlVars, numberUtils, instance, driverVars, serverlessVars,
                   bitVars, marshalVars, diffVars>>

NextMysql ==
    \/ MysqlConnect
    \/ FirstConnectionWorks
    \/ FirstConnectionFails
    \/ CurrentDatabaseWorks
    \/ ConnectQueryFails
    \/ VersionWorks
    \/ MysqlDisconnect
    \/ PoolEndWorks
    \/ PoolEndFails
    \/ MysqlObtainConnection

SpecMysql == InitMysql /\ [][NextMysql]_vars

\* C30: the driver has a pool only between a connect that succeeded and a
\* disconnect that succeeded; without a pool disconnect rejects with
\* ConnectionIsNotSetError and obtainMasterConnection and
\* obtainSlaveConnection with a TypeORMError; a disconnect that succeeds
\* unsets the pool, one whose pool.end fails leaves it set; a connect whose
\* first connection fails leaves the driver without a pool, the created pool
\* ended.
C30_PoolBetweenConnectAndDisconnect ==
    /\ [](/\ (pool # 0 /\ connectPc = "idle") => connected
          /\ (call.t = "disconnect" /\ call.pool = 0)
                 => callRet = Thrown(ConnectionIsNotSetError)
          /\ (call.t \in {"obtainMasterConnection", "obtainSlaveConnection"}
              /\ call.pool = 0)
                 => /\ callRet.t = "throw"
                    /\ callRet.error.name = "TypeORMError")
    /\ [][/\ (endPool # 0 /\ endPool' = 0 /\ callRet'.t = "return")
                 => pool' = 0
          /\ (endPool # 0 /\ endPool' = 0 /\ callRet'.t = "throw") => pool' = pool
          /\ (connectPc = "createPool" /\ connectPc' = "idle")
                 => /\ pool' = 0
                    /\ pools'[connectPool] = "ended"]_vars

====
